---------------------------- MODULE Spec2Model ----------------------------
(***************************************************************************)
(* Flood-impact data-fusion pipeline (dataset_generation/):                *)
(*   prepare_disagreggated_dataset.py  admin-unit expansion, dates, months *)
(*   compute_pop_weighted_damages.py   impact allocation (policies 1-3)    *)
(*   add_data_flags.py                 flag assignment and sort_flags      *)
(* Tables are sequences of records (one record per DataFrame row).         *)
(* Floats are modelled as exact non-negative rationals [n, d]; d = 0       *)
(* carries the IEEE specials (0/0 = NaN, x/0 = inf for x > 0).             *)
(***************************************************************************)
EXTENDS Integers, Sequences, FiniteSets, TLC

VARIABLES
    pc,          \* stage of the run
    registry,    \* preprocessed registry table (one row per DisasterRecord)
    adm_df,      \* AdminUnitEvent rows (after expand_admin_zones, add_event_dates)
    emdat_df,    \* MonthlyEvent rows (emdat_floods_by_mon_yr_adm1.csv)
    metrics_df,  \* event_metrics.csv (one row per extracted mon-yr-adm1-id)
    alloc_df,    \* event_metrics_with_pop_weighted_damages.csv
    flags_df,    \* event_metrics_with_pop_weighted_damages_and_flags.csv
    flag_in,     \* argument of sort_flags
    flag_out,    \* result of sort_flags
    gpw_df,      \* GPW_summary_by_adm1.csv (population counts, area)
    gdp_df,      \* gdp_by_adm1.csv after fill_gdp_with_country_means
    events_df,   \* event-level table (normalization output, panel input)
    panel_df,    \* panel_dataset.csv
    job,         \* mon_yr_adm1_id, the argument of one extraction job
    job_env,     \* the step of that job which the file system makes fail
    job_csv,     \* the <mon_yr_adm1_id>_metrics.csv the job leaves behind
    flood_ids,   \* detect_flooded_pixels: the ids of the batch list
    event_num,   \* position of the loop in flood_ids
    snooze_button, \* exports started so far, plus one
    attempts,    \* ids whose try block was entered
    polled,      \* result of the last poll of the task queue for this id
    sleeps,      \* sleeps of manage_task_queue for this id
    exports,     \* descriptions of the export tasks started
    log_csv      \* rows appended to flood_export_log_<timestamp>.csv

vars == <<pc, registry, adm_df, emdat_df, metrics_df, alloc_df, flags_df,
          flag_in, flag_out, gpw_df, gdp_df, events_df, panel_df,
          job, job_env, job_csv, flood_ids, event_num, snooze_button,
          attempts, polled, sleeps, exports, log_csv>>

\* the tables of the stages after flag assignment
\* the state of the submission loop of detect_flooded_pixels.py
loop == <<flood_ids, event_num, snooze_button, attempts, polled, sleeps,
          exports, log_csv>>
NoPoll == -1
NoLoop ==
    /\ flood_ids = <<>> /\ event_num = 1 /\ snooze_button = 1
    /\ attempts = <<>> /\ polled = NoPoll /\ sleeps = 0
    /\ exports = <<>> /\ log_csv = <<>>
later == <<gpw_df, gdp_df, events_df, panel_df, job, job_env, job_csv, loop>>
NoLater ==
    /\ gpw_df = <<>> /\ gdp_df = <<>> /\ events_df = <<>> /\ panel_df = <<>>
    /\ job = <<>> /\ job_env = "none" /\ job_csv = <<>>
    /\ NoLoop

---------------------------------------------------------------------------
(* Bounds of the model *)

MaxGroup == 3        \* rows of one disaster id in the allocation runs
MaxFlagTokens == 4   \* tokens of a flag string handed to sort_flags
MaxAdmRows == 2      \* AdminUnitEvent rows in the month-splitting runs
MaxRecords == 2      \* DisasterRecords of the registry in the pipeline runs
MaxMonthly == 3      \* MonthlyEvent rows of the registry in the pipeline runs

---------------------------------------------------------------------------
(* Generic sequence helpers *)

RECURSIVE SeqFilter(_, _)
SeqFilter(s, keep) ==
    IF s = <<>> THEN <<>>
    ELSE IF keep[1] THEN <<Head(s)>> \o SeqFilter(Tail(s), Tail(keep))
         ELSE SeqFilter(Tail(s), Tail(keep))

Range(s) == {s[i] : i \in DOMAIN s}

---------------------------------------------------------------------------
(* Floating-point values: non-negative rationals, NaN and inf *)

RECURSIVE GCD(_, _)
GCD(a, b) == IF b = 0 THEN a ELSE GCD(b, a % b)

Norm(n, d) ==
    IF d = 0 THEN [n |-> IF n > 0 THEN 1 ELSE 0, d |-> 0]
    ELSE IF n = 0 THEN [n |-> 0, d |-> 1]
    ELSE [n |-> n \div GCD(n, d), d |-> d \div GCD(n, d)]

NaN == [n |-> 0, d |-> 0]
IntV(k) == [n |-> k, d |-> 1]
Rat(a, b) == Norm(a, b)
IsNaN(x) == x.d = 0 /\ x.n = 0
IsFinite(x) == x.d > 0
Gt0(x) == x.n > 0                \* NaN > 0 is False
Eq0(x) == x.n = 0 /\ x.d > 0     \* NaN == 0 is False

\* products and sums, with common factors taken out before multiplying
FMul(x, y) ==
    IF x.d > 0 /\ y.d > 0
    THEN LET g1 == GCD(x.n, y.d)
             g2 == GCD(y.n, x.d)
         IN  Norm((x.n \div g1) * (y.n \div g2), (x.d \div g2) * (y.d \div g1))
    ELSE Norm(x.n * y.n, x.d * y.d)
FAdd(x, y) ==
    IF x.d > 0 /\ y.d > 0
    THEN LET g == GCD(x.d, y.d)
         IN  Norm(x.n * (y.d \div g) + y.n * (x.d \div g), (x.d \div g) * y.d)
    ELSE Norm(x.n * y.d + y.n * x.d, x.d * y.d)
FDiv(x, y) == FMul(x, [n |-> y.d, d |-> y.n])

\* pandas Series.sum(): NaN entries are skipped, the empty sum is 0
RECURSIVE SumSkipNa(_)
SumSkipNa(s) ==
    IF s = <<>> THEN IntV(0)
    ELSE IF IsNaN(Head(s)) THEN SumSkipNa(Tail(s))
         ELSE FAdd(Head(s), SumSkipNa(Tail(s)))

Column(df, col) == [i \in DOMAIN df |-> df[i][col]]

---------------------------------------------------------------------------
(* Flag strings.  A string of notes separated by "; " is the sequence of  *)
(* its tokens: "" is <<"">>, and  s += "; 14"  appends the token "14".     *)

EmptyStr == <<"">>
AppendNote(s, tok) == Append(s, tok)

---------------------------------------------------------------------------
(* compute_pop_weighted_damages.py *)

ImpactVars == <<"TotalAffected", "TotalDamage">>
PwCol(impact_var) ==
    IF impact_var = "TotalAffected" THEN "TotalAffected_pw" ELSE "TotalDamage_pw"

\* _allocate_using_pop_weight: impact x population_weight, row by row
AllocateUsingPopWeight(df, impact_var) ==
    [i \in DOMAIN df |->
        [df[i] EXCEPT ![PwCol(impact_var)] =
            FMul(df[i][impact_var], df[i].population_weight)]]

AddFlag(df, tok) ==
    [i \in DOMAIN df |->
        [df[i] EXCEPT !.data_processing_flags = AppendNote(@, tok)]]

\* df["flooded_population"] / df["flooded_population"].sum()
PopWeightMutArea(df) ==
    [i \in DOMAIN df |->
        FDiv(df[i].flooded_area, SumSkipNa(Column(df, "flooded_area")))]
PopWeight(df) ==
    [i \in DOMAIN df |->
        FDiv(df[i].flooded_population,
             SumSkipNa(Column(df, "flooded_population")))]

\* 1 / len(df)
EqualWeight(df) == [i \in DOMAIN df |-> FDiv(IntV(1), IntV(Len(df)))]

SetWeight(df, w) ==
    [i \in DOMAIN df |-> [df[i] EXCEPT !.population_weight = w[i]]]

SetColumn(df, col, v) == [i \in DOMAIN df |-> [df[i] EXCEPT ![col] = v]]

\* percent_impact = 0.05 (share given to the zero / missing flood maps)
PercentImpact == Rat(5, 100)
OneMinusPercentImpact == Rat(PercentImpact.d - PercentImpact.n, PercentImpact.d)

AllocateBoth(df) ==
    AllocateUsingPopWeight(AllocateUsingPopWeight(df, ImpactVars[1]),
                           ImpactVars[2])

Method1(df) == AllocateBoth(AddFlag(SetWeight(df, PopWeight(df)), "14"))

\* an equal split that records the flag of policy 1
Method2MutFlag14(df) ==
    AllocateBoth(AddFlag(SetWeight(df, EqualWeight(df)), "14"))
Method2(df) == AllocateBoth(AddFlag(SetWeight(df, EqualWeight(df)), "13"))

\* a pass that leaves the split share in the raw column
Method3VarMutKeepSplit(sub, share, impact_val, impact_var) ==
    AllocateUsingPopWeight(
        SetColumn(sub, impact_var, FMul(impact_val, share)), impact_var)

\* One pass of the loop over impact variables in method 3
Method3Var(sub, share, impact_val, impact_var) ==
    SetColumn(
        AllocateUsingPopWeight(
            SetColumn(sub, impact_var, FMul(impact_val, share)), impact_var),
        impact_var, impact_val)

Method3(df) ==
    LET nonzero == SeqFilter(df, [i \in DOMAIN df |-> Gt0(df[i].flooded_area)])
        zero    == SeqFilter(df, [i \in DOMAIN df |-> ~Gt0(df[i].flooded_area)])
        nz0 == SetWeight(nonzero, PopWeight(nonzero))
        z0  == SetWeight(zero, EqualWeight(zero))
        aff == df[1][ImpactVars[1]]
        dmg == df[1][ImpactVars[2]]
        nz1 == Method3Var(nz0, OneMinusPercentImpact, aff, ImpactVars[1])
        z1  == Method3Var(z0, PercentImpact, aff, ImpactVars[1])
        nz2 == Method3Var(nz1, OneMinusPercentImpact, dmg, ImpactVars[2])
        z2  == Method3Var(z1, PercentImpact, dmg, ImpactVars[2])
    IN  AddFlag(SetColumn(nz2 \o z2, "population_weight", NaN), "15")

allocate_impacts(df, method) ==
    IF method = 1 THEN Method1(df)
    ELSE IF method = 2 THEN Method2(df)
    ELSE IF method = 3 THEN Method3(df)
    ELSE df

\* main, lines 60-78: the policy chosen from the group's flooded_area values
ZeroOrNan(x) == Eq0(x) \/ IsNaN(x)
SelectMethodMutAny(areas) ==
    IF \E i \in DOMAIN areas : Gt0(areas[i]) THEN 1
    ELSE IF \A i \in DOMAIN areas : ZeroOrNan(areas[i]) THEN 2
    ELSE 0
SelectMethod(areas) ==
    LET all_nonzero == \A i \in DOMAIN areas : Gt0(areas[i])
        any_nonzero == \E i \in DOMAIN areas : Gt0(areas[i])
        any_zeros_or_nans  == \E i \in DOMAIN areas : ZeroOrNan(areas[i])
        all_zeroes_or_nans == \A i \in DOMAIN areas : ZeroOrNan(areas[i])
    IN  IF all_nonzero THEN 1
        ELSE IF all_zeroes_or_nans THEN 2
        ELSE IF any_nonzero /\ any_zeros_or_nans THEN 3
        ELSE 0

\* str.contains(event_id) on mon-yr-adm1-id: disaster ids have the fixed
\* shape YYYY-NNNN-ISO, so an id occurs in a key only as that key's id part
KeyContains(key, event_id) == Len(key) = 3 /\ key[2] = event_id

\* pd.merge(emdat_subset, metrics_subset, on=[mon-yr-adm1-id, adm1_code],
\* how="inner"): left order kept, one row per matching pair
RECURSIVE InnerMerge(_, _)
InnerMerge(left, right) ==
    IF left = <<>> THEN <<>>
    ELSE LET l == Head(left)
             hits == SeqFilter(right,
                        [j \in DOMAIN right |->
                            right[j].key = l.key /\ right[j].adm1_code = l.adm1_code])
         IN  [j \in DOMAIN hits |->
                [id |-> l.id, key |-> l.key, adm1_code |-> l.adm1_code,
                 mon_yr |-> l.mon_yr, start |-> l.start, end |-> l.end,
                 TotalAffected |-> l.TotalAffected,
                 TotalDamage |-> l.TotalDamage,
                 data_processing_flags |-> l.data_processing_flags,
                 flooded_population |-> hits[j].flooded_population,
                 flooded_area |-> hits[j].flooded_area,
                 metrics_error |-> hits[j].metrics_error,
                 population_weight |-> NaN,
                 TotalAffected_pw |-> NaN,
                 TotalDamage_pw |-> NaN]]
             \o InnerMerge(Tail(left), right)

\* emdat_df["id"].unique(): ids in order of first appearance
RECURSIVE UniqueIds(_)
UniqueIds(df) ==
    IF df = <<>> THEN <<>>
    ELSE LET rest == UniqueIds(Tail(df))
         IN  <<Head(df).id>> \o
             SeqFilter(rest, [j \in DOMAIN rest |-> rest[j] # Head(df).id])

\* main, lines 38-80: one iteration of the loop over event ids
AllocateEvent(emdat, metrics, event_id) ==
    LET emdat_subset == SeqFilter(emdat,
                            [i \in DOMAIN emdat |-> emdat[i].id = event_id])
        metrics_subset == SeqFilter(metrics,
                            [j \in DOMAIN metrics |->
                                KeyContains(metrics[j].key, event_id)])
        merged == InnerMerge(emdat_subset, metrics_subset)
    IN  allocate_impacts(merged, SelectMethod(Column(merged, "flooded_area")))

RECURSIVE ConcatEvents(_, _, _)
ConcatEvents(emdat, metrics, ids) ==
    IF ids = <<>> THEN <<>>
    ELSE AllocateEvent(emdat, metrics, Head(ids))
         \o ConcatEvents(emdat, metrics, Tail(ids))

compute_pop_weighted_damages(emdat, metrics) ==
    ConcatEvents(emdat, metrics, UniqueIds(emdat))

---------------------------------------------------------------------------
(* The allocation stage as a step of the run *)

ComputePopWeighted ==
    /\ pc = "metrics"
    /\ alloc_df' = compute_pop_weighted_damages(emdat_df, metrics_df)
    /\ pc' = "allocated"
    /\ UNCHANGED <<registry, adm_df, emdat_df, metrics_df, flags_df,
                   flag_in, flag_out>>
    /\ UNCHANGED later

---------------------------------------------------------------------------
(* SpecAlloc: allocation of one disaster id's aggregate over its group *)

\* (flooded_area, flooded_population) pairs extract_flood_metrics can write:
\* both NaN (extraction failed), both 0 (no flooded pixel), or a flooded
\* area whose pixels hold 0 or more people
MetricPairs ==
    { <<NaN, NaN>>, <<IntV(0), IntV(0)>>, <<IntV(2), IntV(0)>>,
      <<IntV(2), IntV(1)>>, <<IntV(2), IntV(3)>> }
AffectedValues == {NaN, IntV(100)}
DamageValues == {NaN, IntV(60)}

GroupRow(i, aff, dmg) ==
    [id |-> "A", key |-> <<1, "A", i>>, adm1_code |-> i,
     mon_yr |-> <<1, 2015>>, start |-> <<2015, 1, 1>>, end |-> <<2015, 1, 31>>,
     TotalAffected |-> aff, TotalDamage |-> dmg,
     data_processing_flags |-> EmptyStr]

MetricsRow(key, adm1, pair, err) ==
    [key |-> key, adm1_code |-> adm1, flooded_area |-> pair[1],
     flooded_population |-> pair[2], metrics_error |-> err]

InitAlloc ==
    /\ pc = "metrics"
    /\ NoLater
    /\ registry = <<>> /\ adm_df = <<>> /\ flags_df = <<>>
    /\ flag_in = EmptyStr /\ flag_out = EmptyStr
    /\ alloc_df = <<>>
    /\ \E n \in 1..MaxGroup, aff \in AffectedValues, dmg \in DamageValues :
         /\ emdat_df = [i \in 1..n |-> GroupRow(i, aff, dmg)]
         /\ \E pairs \in [1..n -> MetricPairs] :
              metrics_df = [i \in 1..n |->
                  MetricsRow(<<1, "A", i>>, i, pairs[i],
                             IF IsNaN(pairs[i][1]) THEN "RasterioIOError" ELSE "")]

NextAlloc == ComputePopWeighted

SpecAlloc == InitAlloc /\ [][NextAlloc]_vars

\* Rows of the allocation output that belong to one disaster id
RowsOf(df, event_id) ==
    SeqFilter(df, [i \in DOMAIN df |-> df[i].id = event_id])
IdsOf(df) == {df[i].id : i \in DOMAIN df}

\* The flooded_area values the group of an id had in the metrics table
GroupAreas(event_id) == Column(RowsOf(alloc_df, event_id), "flooded_area")

AllPositive(areas) == \A i \in DOMAIN areas : Gt0(areas[i])
AllZeroOrMissing(areas) == \A i \in DOMAIN areas : ~Gt0(areas[i])
Mixed(areas) == ~AllPositive(areas) /\ ~AllZeroOrMissing(areas)

AllocFlags == {"13", "14", "15"}
AllocFlagsOf(row) == SeqFilter(row.data_processing_flags,
    [k \in DOMAIN row.data_processing_flags |->
        row.data_processing_flags[k] \in AllocFlags])

\* Exact sum of a column; NaN as soon as one entry is NaN
RECURSIVE SumStrict(_)
SumStrict(s) == IF s = <<>> THEN IntV(0) ELSE FAdd(Head(s), SumStrict(Tail(s)))

\* C1 (as claimed): Conservation.  For every disaster id with rows in the
\* allocation output and each impact variable whose aggregate is present,
\* the population-weighted values of the id's rows sum to the aggregate.
C1_Conservation ==
    pc = "allocated" =>
        \A e \in IdsOf(alloc_df) : \A v \in Range(ImpactVars) :
            LET rows == RowsOf(alloc_df, e)
            IN  IsFinite(rows[1][v]) =>
                    SumStrict(Column(rows, PwCol(v))) = rows[1][v]

\* C2: Policy selection.  Every group of the allocation output was given
\* exactly one policy, decided by its flooded_area values: all > 0 gives
\* policy 1 (flag 14), all zero or missing gives policy 2 (flag 13), mixed
\* gives policy 3 (flag 15); every row of the group carries that one
\* allocation flag and no other.
ExpectedAllocFlag(areas) ==
    IF AllPositive(areas) THEN "14"
    ELSE IF AllZeroOrMissing(areas) THEN "13"
    ELSE "15"
C2_PolicySelection ==
    pc = "allocated" =>
        \A e \in IdsOf(alloc_df) :
            LET rows == RowsOf(alloc_df, e)
                areas == GroupAreas(e)
            IN  \A i \in DOMAIN rows :
                  /\ AllocFlagsOf(rows[i]) = <<ExpectedAllocFlag(areas)>>
                  /\ AllZeroOrMissing(areas) =>
                        FMul(rows[i].population_weight, IntV(Len(rows))) = IntV(1)
                  /\ Mixed(areas) => IsNaN(rows[i].population_weight)

\* C2 witness: flooded_area = [2, 0] was allocated by policy 3 (flag 15)
C2_Witness ==
    /\ pc = "allocated"
    /\ Len(alloc_df) = 2
    /\ \E i, j \in DOMAIN alloc_df :
         Gt0(alloc_df[i].flooded_area) /\ Eq0(alloc_df[j].flooded_area)
    /\ \A i \in DOMAIN alloc_df :
         alloc_df[i].data_processing_flags = <<"", "15">>

\* C3 (as claimed): Policy 3 split.  In a mixed group, for each impact
\* variable with a present aggregate, the rows with flooded_area > 0 get
\* values that sum to 95% of the aggregate, proportional to their
\* flooded_population, and each of the m other rows gets 5% / m.
C3_Policy3Split ==
    pc = "allocated" =>
        \A e \in IdsOf(alloc_df) : \A v \in Range(ImpactVars) :
            LET rows == RowsOf(alloc_df, e)
                areas == GroupAreas(e)
                nz == SeqFilter(rows, [i \in DOMAIN rows |-> Gt0(areas[i])])
                z  == SeqFilter(rows, [i \in DOMAIN rows |-> ~Gt0(areas[i])])
                agg == rows[1][v]
                total == SumStrict(Column(nz, "flooded_population"))
            IN  (Mixed(areas) /\ IsFinite(agg)) =>
                  /\ SumStrict(Column(nz, PwCol(v))) = FMul(agg, Rat(95, 100))
                  /\ \A i \in DOMAIN nz :
                        FMul(nz[i][PwCol(v)], total)
                          = FMul(FMul(agg, Rat(95, 100)), nz[i].flooded_population)
                  /\ \A i \in DOMAIN z :
                        FMul(z[i][PwCol(v)], IntV(Len(z))) = FMul(agg, Rat(5, 100))

\* C4: Policy 1 and 2 weight rule.  Under policy 1 a row's weight times the
\* group's total flooded_population is the row's flooded_population (the
\* weight is NaN where that total is 0); under policy 2 the weight is 1/n;
\* in both the allocated value is aggregate x weight.
C4_WeightRule ==
    pc = "allocated" =>
        \A e \in IdsOf(alloc_df) :
            LET rows == RowsOf(alloc_df, e)
                areas == GroupAreas(e)
                total == SumStrict(Column(rows, "flooded_population"))
            IN  \A i \in DOMAIN rows :
                  /\ AllPositive(areas) =>
                        IF Gt0(total)
                        THEN /\ IsFinite(rows[i].population_weight)
                             /\ rows[i].population_weight.n * total.n
                                    * rows[i].flooded_population.d
                                = rows[i].flooded_population.n
                                    * rows[i].population_weight.d * total.d
                        ELSE IsNaN(rows[i].population_weight)
                  /\ AllZeroOrMissing(areas) =>
                        /\ rows[i].population_weight.n * Len(rows)
                             = rows[i].population_weight.d
                        /\ IsFinite(rows[i].population_weight)
                  /\ ~Mixed(areas) =>
                        \A v \in Range(ImpactVars) :
                            rows[i][PwCol(v)]
                              = FMul(rows[i][v], rows[i].population_weight)

\* C4 witness: a policy-1 group with flooded_population 1 and 3 got the
\* weights 1/4 and 3/4, and a present aggregate was shared accordingly
C4_Witness ==
    /\ pc = "allocated"
    /\ Len(alloc_df) = 2
    /\ AllPositive(Column(alloc_df, "flooded_area"))
    /\ \E i, j \in DOMAIN alloc_df :
         /\ alloc_df[i].flooded_population = IntV(1)
         /\ alloc_df[j].flooded_population = IntV(3)
         /\ alloc_df[i].population_weight = Rat(1, 4)
         /\ alloc_df[j].population_weight = Rat(3, 4)
         /\ alloc_df[i].TotalAffected_pw = IntV(25)
         /\ alloc_df[j].TotalAffected_pw = IntV(75)

---------------------------------------------------------------------------
(* utils/emdat_toolbox.py: dates.  A date is <<year, month, day>>; a       *)
(* missing number (np.nan) is NA and a missing date is NaT.                *)

NA == 0
NaT == <<>>
IsNa(x) == x = NA
IsNaT(d) == d = NaT

IsLeap(y) == (y % 4 = 0 /\ y % 100 # 0) \/ y % 400 = 0
\* calendar.monthrange(year, month)[1]
DaysInMonth(y, m) ==
    IF m = 2 THEN (IF IsLeap(y) THEN 29 ELSE 28)
    ELSE IF m \in {4, 6, 9, 11} THEN 30 ELSE 31

DateLT(a, b) ==
    \/ a[1] < b[1]
    \/ a[1] = b[1] /\ a[2] < b[2]
    \/ a[1] = b[1] /\ a[2] = b[2] /\ a[3] < b[3]
DateLE(a, b) == a = b \/ DateLT(a, b)
DateMax(a, b) == IF DateLT(a, b) THEN b ELSE a
DateMin(a, b) == IF DateLT(a, b) THEN a ELSE b

NextMonthStart(d) == IF d[2] = 12 THEN <<d[1] + 1, 1, 1>> ELSE <<d[1], d[2] + 1, 1>>
\* month_start + pd.offsets.MonthEnd(0)
MonthEnd(d) == <<d[1], d[2], DaysInMonth(d[1], d[2])>>
NextDay(d) ==
    IF d[3] < DaysInMonth(d[1], d[2]) THEN <<d[1], d[2], d[3] + 1>>
    ELSE NextMonthStart(d)

get_datetime(year, month, day) ==
    IF IsNa(year) \/ IsNa(month) \/ IsNa(day) THEN NaT
    ELSE <<year, month, day>>

StartNote == "Start day originally NaN"
EndNote == "End day originally NaN"

\* fill_missing_start_end_days, one row
FillStart(row) ==
    IF IsNa(row.StartDay) /\ ~IsNa(row.StartMonth) /\ ~IsNa(row.StartYear)
    THEN [row EXCEPT !.StartDay = 1,
                     !.data_processing_flags = AppendNote(@, StartNote)]
    ELSE row
FillEnd(row) ==
    IF IsNa(row.EndDay) /\ ~IsNa(row.EndMonth) /\ ~IsNa(row.EndYear)
    THEN [row EXCEPT !.EndDay = DaysInMonth(row.EndYear, row.EndMonth),
                     !.data_processing_flags = AppendNote(@, EndNote)]
    ELSE row
fill_missing_start_end_days(df) == [i \in DOMAIN df |-> FillEnd(FillStart(df[i]))]

add_event_dates(df) ==
    LET filled == fill_missing_start_end_days(df)
    IN  [i \in DOMAIN filled |->
            [filled[i] EXCEPT
                !.start = get_datetime(filled[i].StartYear, filled[i].StartMonth,
                                       filled[i].StartDay),
                !.end = get_datetime(filled[i].EndYear, filled[i].EndMonth,
                                     filled[i].EndDay)]]

\* pd.date_range(start.replace(day=1), end, freq="MS"): the month starts
\* from the first of the start month up to the end date
RECURSIVE MonthStartsFrom(_, _)
MonthStartsFrom(first, end) ==
    IF DateLT(end, first) THEN <<>>
    ELSE <<first>> \o MonthStartsFrom(NextMonthStart(first), end)
MonthStarts(start, end) == MonthStartsFrom(<<start[1], start[2], 1>>, end)

\* row_copy["mon-yr-id"] = f"{month_start.strftime('%m')}-{row_copy['id']}"
MonYrId(month_start, id) == <<month_start[2], id>>

\* the clipped chunk of one month
ChunkNoClip(row, month_start) ==
    [row EXCEPT !.start = month_start,
                !.end = MonthEnd(month_start),
                !.mon_yr = <<month_start[2], month_start[1]>>,
                !.mon_yr_id = MonYrId(month_start, row.id)]
Chunk(row, month_start) ==
    [row EXCEPT !.start = DateMax(row.start, month_start),
                !.end = DateMin(row.end, MonthEnd(month_start)),
                !.mon_yr = <<month_start[2], month_start[1]>>,
                !.mon_yr_id = MonYrId(month_start, row.id)]

\* a split that drops the rows without dates
split_event_by_monthMutDrop(row) ==
    IF IsNaT(row.start) \/ IsNaT(row.end)
    THEN <<>>
    ELSE LET months == MonthStarts(row.start, row.end)
         IN  [k \in DOMAIN months |-> Chunk(row, months[k])]

split_event_by_month(row) ==
    IF IsNaT(row.start) \/ IsNaT(row.end)
    THEN << [row EXCEPT !.mon_yr = <<>>, !.mon_yr_id = <<>>] >>
    ELSE LET months == MonthStarts(row.start, row.end)
         IN  [k \in DOMAIN months |-> Chunk(row, months[k])]

\* add_monthly_rows: pd.concat of the per-row splits
RECURSIVE add_monthly_rows(_)
add_monthly_rows(df) ==
    IF df = <<>> THEN <<>>
    ELSE split_event_by_month(Head(df)) \o add_monthly_rows(Tail(df))

\* append_adm1_code_to_id: f"{row['mon-yr-id']}-{int(row['adm1_code'])}"
append_adm1_code_to_id(df) ==
    [i \in DOMAIN df |->
        [df[i] EXCEPT !.key = df[i].mon_yr_id \o <<df[i].adm1_code>>]]

\* clean_and_export: the columns kept in emdat_floods_by_mon_yr_adm1.csv
clean_and_export(df) ==
    [i \in DOMAIN df |->
        [id |-> df[i].id, key |-> df[i].key, adm1_code |-> df[i].adm1_code,
         mon_yr |-> df[i].mon_yr, start |-> df[i].start, end |-> df[i].end,
         TotalAffected |-> df[i].TotalAffected,
         TotalDamage |-> df[i].TotalDamage,
         data_processing_flags |-> df[i].data_processing_flags]]

\* prepare_disagreggated_dataset.main, from add_monthly_rows on
PrepareMonthly ==
    /\ pc = "adm"
    /\ emdat_df' = clean_and_export(append_adm1_code_to_id(add_monthly_rows(adm_df)))
    /\ pc' = "monthly"
    /\ UNCHANGED <<registry, adm_df, metrics_df, alloc_df, flags_df,
                   flag_in, flag_out>>
    /\ UNCHANGED later

---------------------------------------------------------------------------
(* SpecSplit: month splitting and key assignment of AdminUnitEvent rows *)

AdmRow(id, adm1, s, e, aff, dmg, flags) ==
    [id |-> id, adm1_code |-> adm1,
     StartYear  |-> IF IsNaT(s) THEN NA ELSE s[1],
     StartMonth |-> IF IsNaT(s) THEN NA ELSE s[2],
     StartDay   |-> IF IsNaT(s) THEN NA ELSE s[3],
     EndYear    |-> IF IsNaT(e) THEN NA ELSE e[1],
     EndMonth   |-> IF IsNaT(e) THEN NA ELSE e[2],
     EndDay     |-> IF IsNaT(e) THEN NA ELSE e[3],
     start |-> s, end |-> e, mon_yr |-> <<>>, mon_yr_id |-> <<>>, key |-> <<>>,
     TotalAffected |-> aff, TotalDamage |-> dmg,
     data_processing_flags |-> flags]

SplitStarts == { <<2015, 1, 20>>, <<2015, 2, 1>>, <<2015, 12, 15>>, NaT }
SplitEnds == { <<2015, 1, 31>>, <<2015, 2, 5>>, <<2016, 1, 10>>,
               <<2016, 2, 29>>, NaT }
\* (id, adm1_code) of the rows: distinct after drop_duplicates
SplitUnits == << <<"A", 1>>, <<"A", 2>>, <<"B", 1>>, <<"B", 2>> >>

InitSplit ==
    /\ pc = "adm"
    /\ NoLater
    /\ registry = <<>> /\ emdat_df = <<>> /\ metrics_df = <<>>
    /\ alloc_df = <<>> /\ flags_df = <<>>
    /\ flag_in = EmptyStr /\ flag_out = EmptyStr
    /\ \E n \in 1..MaxAdmRows :
         \E ss \in [1..n -> SplitStarts], es \in [1..n -> SplitEnds] :
            adm_df = [i \in 1..n |->
                AdmRow(SplitUnits[((i - 1) % Len(SplitUnits)) + 1][1],
                       SplitUnits[((i - 1) % Len(SplitUnits)) + 1][2],
                       ss[i], es[i], IntV(100), IntV(60), EmptyStr)]

NextSplit == PrepareMonthly

SpecSplit == InitSplit /\ [][NextSplit]_vars

\* MonthlyEvent rows of one AdminUnitEvent, in output order
MonthlyOf(r) ==
    SeqFilter(emdat_df, [i \in DOMAIN emdat_df |->
        emdat_df[i].id = r.id /\ emdat_df[i].adm1_code = r.adm1_code])

MonthIndex(d) == 12 * d[1] + d[2]

Dated(r) == ~IsNaT(r.start) /\ ~IsNaT(r.end)

\* C5: Month-interval tiling.  For an AdminUnitEvent with Start Date <= End
\* Date the monthly rows are one per calendar month from the start month to
\* the end month, in ascending order; each row is the event clipped to its
\* month, the first starts at Start Date, the last ends at End Date, and
\* each row starts the day after the previous one ends.
C5_MonthTiling ==
    pc = "monthly" =>
        \A a \in DOMAIN adm_df :
            LET r == adm_df[a]
                rows == MonthlyOf(r)
                n == Len(rows)
            IN  (Dated(r) /\ DateLE(r.start, r.end)) =>
                  /\ n = MonthIndex(r.end) - MonthIndex(r.start) + 1
                  /\ rows[1].start = r.start
                  /\ rows[n].end = r.end
                  /\ \A k \in 1..n :
                        LET first == <<rows[k].mon_yr[2], rows[k].mon_yr[1], 1>>
                        IN  /\ MonthIndex(first) = MonthIndex(r.start) + k - 1
                            /\ rows[k].start = DateMax(r.start, first)
                            /\ rows[k].end = DateMin(r.end, MonthEnd(first))
                            /\ DateLE(rows[k].start, rows[k].end)
                  /\ \A k \in 1..(n - 1) :
                        NextDay(rows[k].end) = rows[k + 1].start

\* C5 witness: 2015-01-20..2015-02-05 became exactly 01-20..01-31 and
\* 02-01..02-05
C5_Witness ==
    /\ pc = "monthly"
    /\ \E a \in DOMAIN adm_df :
         /\ adm_df[a].start = <<2015, 1, 20>>
         /\ adm_df[a].end = <<2015, 2, 5>>
         /\ Len(MonthlyOf(adm_df[a])) = 2
         /\ MonthlyOf(adm_df[a])[1].start = <<2015, 1, 20>>
         /\ MonthlyOf(adm_df[a])[1].end = <<2015, 1, 31>>
         /\ MonthlyOf(adm_df[a])[2].start = <<2015, 2, 1>>
         /\ MonthlyOf(adm_df[a])[2].end = <<2015, 2, 5>>

\* C6 (as claimed): Composite key uniqueness.  No two distinct MonthlyEvent
\* rows that have a calendar month share the same mon-yr-adm1-id.
C6_KeyUnique ==
    pc = "monthly" =>
        \A i, j \in DOMAIN emdat_df :
            (i # j /\ emdat_df[i].mon_yr # <<>> /\ emdat_df[j].mon_yr # <<>>)
                => emdat_df[i].key # emdat_df[j].key

---------------------------------------------------------------------------
(* prepare_disagreggated_dataset.py: admin-unit expansion *)

\* The "Admin Units" cell: missing, an unparsable string, or a list of
\* units, each naming an adm1_code or an adm2_code (NA where absent)
UnitsNaN == [kind |-> "nan", units |-> <<>>]
UnitsBad == [kind |-> "bad", units |-> <<>>]
UnitsList(us) == [kind |-> "list", units |-> us]
\* a literal that evaluates to a list whose entries are no dicts ("[1]")
UnitsNonDict == [kind |-> "nondict", units |-> <<>>]
Adm1Unit(c) == [adm1_code |-> c, adm2_code |-> NA]
Adm2Unit(c) == [adm1_code |-> NA, adm2_code |-> c]

\* gaul_l2[["ADM2_CODE", "ADM1_CODE"]]: the boundary reference table
GaulAdm2 == {21, 22}
GaulAdm1Of(adm2) == adm2 - 20

\* expand_admin_units: one row per listed unit, [] when parsing fails
expand_admin_units(row) ==
    IF row.AdminUnits.kind # "list" THEN <<>>
    ELSE [u \in DOMAIN row.AdminUnits.units |->
            [id |-> row.id,
             adm1_code |-> row.AdminUnits.units[u].adm1_code,
             adm2_code |-> row.AdminUnits.units[u].adm2_code,
             StartYear |-> row.StartYear, StartMonth |-> row.StartMonth,
             StartDay |-> row.StartDay, EndYear |-> row.EndYear,
             EndMonth |-> row.EndMonth, EndDay |-> row.EndDay,
             start |-> NaT, end |-> NaT,
             mon_yr |-> <<>>, mon_yr_id |-> <<>>, key |-> <<>>,
             TotalAffected |-> row.TotalAffected,
             TotalDamage |-> row.TotalDamage,
             data_processing_flags |-> row.data_processing_flags]]

RECURSIVE ExpandAll(_)
ExpandAll(df) ==
    IF df = <<>> THEN <<>>
    ELSE expand_admin_units(Head(df)) \o ExpandAll(Tail(df))

\* merge with GAUL on adm2_code, combine_first on adm1_code
WithGaul(row) ==
    IF IsNa(row.adm1_code) /\ row.adm2_code \in GaulAdm2
    THEN [row EXCEPT !.adm1_code = GaulAdm1Of(row.adm2_code)]
    ELSE row

\* drop_duplicates(subset=["adm1_code", "id"]): the first of each pair stays
DropDuplicates(df) ==
    SeqFilter(df, [i \in DOMAIN df |->
        \A j \in 1..(i - 1) :
            ~(df[j].adm1_code = df[i].adm1_code /\ df[j].id = df[i].id)])

expand_admin_zones(df) ==
    LET expanded == ExpandAll(df)
        merged == [i \in DOMAIN expanded |-> WithGaul(expanded[i])]
        present == SeqFilter(merged,
                      [i \in DOMAIN merged |-> ~IsNa(merged[i].adm1_code)])
    IN  DropDuplicates(present)

\* expand_admin_units catches ValueError, SyntaxError and TypeError only:
\* unit.get on an entry that is no dict raises AttributeError
ParseRaises(row) == row.AdminUnits.kind = "nondict"

\* expand_admin_zones raises: an exception leaves expand_admin_units, or no
\* row was expanded, so that pd.DataFrame([]) has no column "adm2_code" and
\* pd.merge raises KeyError
ExpandRaises(df) ==
    \/ \E i \in DOMAIN df : ParseRaises(df[i])
    \/ ExpandAll(df) = <<>>

\* prepare_disagreggated_dataset.main up to add_event_dates
ExpandAndDate ==
    /\ pc = "registry"
    /\ IF ExpandRaises(registry)
       THEN pc' = "expand_raised" /\ UNCHANGED adm_df
       ELSE /\ adm_df' = add_event_dates(expand_admin_zones(registry))
            /\ pc' = "adm"
    /\ UNCHANGED <<registry, emdat_df, metrics_df, alloc_df, flags_df,
                   flag_in, flag_out>>
    /\ UNCHANGED later

---------------------------------------------------------------------------
(* extract_flood_metrics.py: what one extraction job leaves behind *)

ErrTifMissing == "RasterioIOError: x.tif: No such file or directory"
ErrGpwMissing == "FileNotFoundError: data/GPW_by_adm1/ file"
ErrGridMismatch == "ValueError: Coordinate 'x' has mismatched shapes"
\* raised by main when the two grids differ by more than the threshold
ErrDistinctGrids ==
    "ValueError: Flooded image and GPW population data have distinct grids."

\* outcome of a job: no CSV written, an error row, or metrics
Outcomes == {"absent", "tif", "gpw", "grid", "distinct", "zero", "flooded"}

OutcomeRow(key, o) ==
    IF o = "tif" THEN MetricsRow(key, key[3], <<NaN, NaN>>, ErrTifMissing)
    ELSE IF o = "gpw" THEN MetricsRow(key, key[3], <<NaN, NaN>>, ErrGpwMissing)
    ELSE IF o = "grid" THEN MetricsRow(key, key[3], <<NaN, NaN>>, ErrGridMismatch)
    ELSE IF o = "distinct"
    THEN MetricsRow(key, key[3], <<NaN, NaN>>, ErrDistinctGrids)
    ELSE IF o = "zero" THEN MetricsRow(key, key[3], <<IntV(0), IntV(0)>>, "")
    ELSE MetricsRow(key, key[3], <<IntV(2), IntV(3)>>, "")

\* df["mon-yr-adm1-id"].dropna().unique(): the job list
RECURSIVE UniqueKeys(_)
UniqueKeys(df) ==
    IF df = <<>> THEN <<>>
    ELSE LET rest == UniqueKeys(Tail(df))
         IN  <<Head(df).key>> \o
             SeqFilter(rest, [j \in DOMAIN rest |-> rest[j] # Head(df).key])

\* A key of an undated row ("-<adm1>") makes the job stop before it writes
\* its CSV (the year cannot be parsed and adm1_code is never bound)
Extractable(key) == Len(key) = 3

\* All jobs run; combine_csvs concatenates the CSVs that exist
ExtractMetrics ==
    /\ pc = "monthly"
    /\ LET keys == UniqueKeys(emdat_df)
       IN  \E o \in [DOMAIN keys -> Outcomes] :
             /\ \A k \in DOMAIN keys : ~Extractable(keys[k]) => o[k] = "absent"
             /\ metrics_df' =
                  LET kept == SeqFilter(keys, [k \in DOMAIN keys |-> o[k] # "absent"])
                      outs == SeqFilter(o, [k \in DOMAIN keys |-> o[k] # "absent"])
                  IN  [k \in DOMAIN kept |-> OutcomeRow(kept[k], outs[k])]
    /\ pc' = "metrics"
    /\ UNCHANGED <<registry, adm_df, emdat_df, alloc_df, flags_df,
                   flag_in, flag_out>>
    /\ UNCHANGED later

---------------------------------------------------------------------------
(* add_data_flags.py *)

\* str(k) for the flag codes, and int(token) back
CodeStr == <<"1", "2", "3", "4", "5", "6", "7", "8", "9", "10", "11", "12",
             "13", "14", "15">>
Str(k) == CodeStr[k]
ToInt(tok) == CHOOSE k \in DOMAIN CodeStr : CodeStr[k] = tok

\* position of str(k) in lexicographic string order
LexKey(k) == IF k < 10 THEN 100 * k ELSE 100 * (k \div 10) + (k % 10) + 1

RECURSIVE InsertLex(_, _)
InsertLex(x, s) ==
    IF s = <<>> THEN <<x>>
    ELSE IF LexKey(x) < LexKey(Head(s)) THEN <<x>> \o s
         ELSE <<Head(s)>> \o InsertLex(x, Tail(s))
RECURSIVE InsertNum(_, _)
InsertNum(x, s) ==
    IF s = <<>> THEN <<x>>
    ELSE IF x < Head(s) THEN <<x>> \o s
         ELSE <<Head(s)>> \o InsertNum(x, Tail(s))

\* sorted(nums)
RECURSIVE SortedLex(_)
SortedLex(nums) ==
    IF nums = <<>> THEN <<>> ELSE InsertLex(Head(nums), SortedLex(Tail(nums)))
RECURSIVE Sorted(_)
Sorted(nums) ==
    IF nums = <<>> THEN <<>> ELSE InsertNum(Head(nums), Sorted(Tail(nums)))

\* sort_flags(flag_str)
sort_flags(flag_str) ==
    IF flag_str = EmptyStr THEN EmptyStr
    ELSE LET toks == SeqFilter(flag_str,
                        [i \in DOMAIN flag_str |-> flag_str[i] # ""])
             nums == Sorted([i \in DOMAIN toks |-> ToInt(toks[i])])
         IN  IF nums = <<>> THEN EmptyStr
             ELSE [i \in DOMAIN nums |-> Str(nums[i])]

\* str.lstrip("; "): leading separators, i.e. leading empty tokens, go
RECURSIVE LStrip(_)
LStrip(s) ==
    IF Len(s) > 1 /\ Head(s) = "" THEN LStrip(Tail(s)) ELSE s

\* A missing string cell (NaN) holds no token
NaNStr == <<>>
ErrNaN == "nan"

\* str.contains(note, na=False) and str.contains(regex(k), na=False)
HasNote(s, tok) == \E i \in DOMAIN s : s[i] = tok

\* str.contains(sub, na=False) on metrics_error
ErrContains(err, sub) ==
    sub \in (CASE err = ErrTifMissing ->
                    {"RasterioIOError", ".tif: No such file or directory"}
               [] err = ErrGpwMissing -> {"FileNotFound", "data/GPW_by_adm1/"}
               [] err = ErrGridMismatch ->
                    {"ValueError", "Coordinate", "has mismatched shapes"}
               [] err = ErrDistinctGrids -> {"ValueError"}
               [] OTHER -> {})

\* columns of emdat_df the merge is made on (all but data_processing_flags)
EmdatCols(r) ==
    <<r.id, r.key, r.adm1_code, r.mon_yr, r.start, r.end,
      r.TotalAffected, r.TotalDamage>>

\* flags_df["flags"] = "": the flag column starts empty, whatever an
\* earlier run has written
InitFlagsKeep(prev, cols) ==
    IF \E i \in DOMAIN prev : EmdatCols(prev[i]) = cols
    THEN (CHOOSE f \in {prev[i].flags : i \in {j \in DOMAIN prev :
                                EmdatCols(prev[j]) = cols}} : TRUE)
    ELSE EmptyStr
InitFlags(prev, cols) == EmptyStr

\* emdat_df.merge(metrics_df, on=list(emdat_df.columns), how="left")
RECURSIVE LeftMerge(_, _, _)
LeftMerge(left, right, prev) ==
    IF left = <<>> THEN <<>>
    ELSE LET l == Head(left)
             hits == SeqFilter(right,
                        [j \in DOMAIN right |-> EmdatCols(right[j]) = EmdatCols(l)])
             base == [id |-> l.id, key |-> l.key, adm1_code |-> l.adm1_code,
                      mon_yr |-> l.mon_yr, start |-> l.start, end |-> l.end,
                      TotalAffected |-> l.TotalAffected,
                      TotalDamage |-> l.TotalDamage,
                      data_processing_flags |-> NaNStr,
                      metrics_error |-> ErrNaN,
                      flooded_population |-> NaN, flooded_area |-> NaN,
                      population_weight |-> NaN,
                      TotalAffected_pw |-> NaN, TotalDamage_pw |-> NaN,
                      flags |-> InitFlags(prev, EmdatCols(l)),
                      recovered |-> FALSE]
         IN  (IF hits = <<>> THEN <<base>>
              ELSE [j \in DOMAIN hits |->
                      [base EXCEPT
                         !.data_processing_flags = hits[j].data_processing_flags,
                         !.metrics_error = hits[j].metrics_error,
                         !.flooded_population = hits[j].flooded_population,
                         !.flooded_area = hits[j].flooded_area,
                         !.population_weight = hits[j].population_weight,
                         !.TotalAffected_pw = hits[j].TotalAffected_pw,
                         !.TotalDamage_pw = hits[j].TotalDamage_pw]])
             \o LeftMerge(Tail(left), right, prev)

AppendIf(row, cond, code) ==
    IF cond THEN [row EXCEPT !.flags = AppendNote(@, Str(code))] ELSE row

\* get_missing_rows: registry rows whose id is in no processed row
RecoveredRow(r) ==
    LET m9 == IsNaT(r.start) \/ IsNaT(r.end)
        m10 == r.AdminUnits.kind = "nan"
        row0 == [id |-> r.id, key |-> <<>>, adm1_code |-> NA, mon_yr |-> <<>>,
                 start |-> r.start, end |-> r.end,
                 TotalAffected |-> r.TotalAffected,
                 TotalDamage |-> r.TotalDamage,
                 data_processing_flags |-> r.data_processing_flags,
                 metrics_error |-> ErrNaN,
                 flooded_population |-> NaN, flooded_area |-> NaN,
                 population_weight |-> NaN,
                 TotalAffected_pw |-> NaN, TotalDamage_pw |-> NaN,
                 flags |-> EmptyStr, recovered |-> TRUE]
        row9 == AppendIf(row0, m9, 9)
        row10 == AppendIf(row9, m10, 10)
    IN  AppendIf(row10, row10.flags = EmptyStr, 11)

get_missing_rowsMutNone(emdat_orig_df, emdat_processed_df) == <<>>
get_missing_rows(emdat_orig_df, emdat_processed_df) ==
    LET missing == SeqFilter(emdat_orig_df,
                      [i \in DOMAIN emdat_orig_df |->
                          emdat_orig_df[i].id \notin IdsOf(emdat_processed_df)])
        blank == [i \in DOMAIN missing |->
                    [missing[i] EXCEPT !.data_processing_flags = EmptyStr]]
        dated == add_event_dates(blank)
    IN  [i \in DOMAIN dated |-> RecoveredRow(dated[i])]

\* Terra data availability, pd.to_datetime("2000-02-25")
TerraDate == <<2000, 2, 25>>

\* main, lines 146-224: the rules, in the order the code applies them
ApplyRules(row) ==
    LET dpf == row.data_processing_flags
        err == row.metrics_error
        mask3 == ~IsNaT(row.start) /\ DateLT(row.start, TerraDate)
        r1 == AppendIf(row, HasNote(dpf, StartNote), 1)
        r2 == AppendIf(r1, HasNote(dpf, EndNote), 2)
        r7 == AppendIf(r2, HasNote(dpf, Str(7)), 7)
        r8 == AppendIf(r7, HasNote(dpf, Str(8)), 8)
        r13 == AppendIf(r8, HasNote(dpf, Str(13)), 13)
        r14 == AppendIf(r13, HasNote(dpf, Str(14)), 14)
        r15 == AppendIf(r14, HasNote(dpf, Str(15)), 15)
        r5 == AppendIf(r15, ErrContains(err, "data/GPW_by_adm1/")
                            /\ ErrContains(err, "FileNotFound"), 5)
        r6 == AppendIf(r5, ErrContains(err, "ValueError")
                           /\ ErrContains(err, "Coordinate")
                           /\ ErrContains(err, "has mismatched shapes"), 6)
        r3 == AppendIf(r6, mask3, 3)
        r4 == AppendIf(r3, ErrContains(err, "RasterioIOError")
                           /\ ErrContains(err, ".tif: No such file or directory")
                           /\ ~mask3, 4)
    IN  AppendIf(r4, Eq0(row.flooded_area), 12)

\* the exported row: both note columns dropped, flags sorted and stripped
ExportRow(row) ==
    [id |-> row.id, key |-> row.key, adm1_code |-> row.adm1_code,
     mon_yr |-> row.mon_yr, start |-> row.start, end |-> row.end,
     TotalAffected |-> row.TotalAffected, TotalDamage |-> row.TotalDamage,
     flooded_population |-> row.flooded_population,
     flooded_area |-> row.flooded_area,
     population_weight |-> row.population_weight,
     TotalAffected_pw |-> row.TotalAffected_pw,
     TotalDamage_pw |-> row.TotalDamage_pw,
     flags |-> LStrip(sort_flags(row.flags)),
     recovered |-> row.recovered]

\* main: prev is the table an earlier run exported (never read)
add_data_flags(emdat, metrics, emdat_orig, prev) ==
    LET merged == LeftMerge(emdat, metrics, prev)
        all == merged \o get_missing_rows(emdat_orig, metrics)
    IN  [i \in DOMAIN all |-> ExportRow(ApplyRules(all[i]))]

AddDataFlags ==
    /\ pc \in {"allocated", "flagged"}
    /\ flags_df' = add_data_flags(emdat_df, alloc_df, registry, flags_df)
    /\ pc' = IF pc = "allocated" THEN "flagged" ELSE "reflagged"
    /\ UNCHANGED <<registry, adm_df, emdat_df, metrics_df, alloc_df,
                   flag_in, flag_out>>
    /\ UNCHANGED later

\* sort_flags applied to a flag string
SortFlags ==
    /\ pc = "sort"
    /\ flag_out' = sort_flags(flag_in)
    /\ pc' = "sorted"
    /\ UNCHANGED <<registry, adm_df, emdat_df, metrics_df, alloc_df, flags_df,
                   flag_in>>
    /\ UNCHANGED later

---------------------------------------------------------------------------
(* SpecSort: sort_flags on flag strings *)

FlagTokens == {"", "1", "2", "12"}

InitSort ==
    /\ pc = "sort"
    /\ NoLater
    /\ registry = <<>> /\ adm_df = <<>> /\ emdat_df = <<>>
    /\ metrics_df = <<>> /\ alloc_df = <<>> /\ flags_df = <<>>
    /\ flag_out = EmptyStr
    /\ \E n \in 1..MaxFlagTokens : flag_in \in [1..n -> FlagTokens]

NextSort == SortFlags

SpecSort == InitSort /\ [][NextSort]_vars

\* integer codes of a flag string, with their number of occurrences
CodesOf(s) == {ToInt(s[i]) : i \in {j \in DOMAIN s : s[j] # ""}}
CountOf(s, k) == Cardinality({i \in DOMAIN s : s[i] = Str(k)})
NoSeparatorLeft(s) == s = EmptyStr \/ \A i \in DOMAIN s : s[i] # ""

\* C8 (as claimed): Flag canonicalization.  sort_flags returns the distinct
\* codes of its input, each exactly once, in ascending numeric order, with
\* no leading separator.
C8_SortedDistinct ==
    pc = "sorted" =>
        /\ NoSeparatorLeft(flag_out)
        /\ CodesOf(flag_out) = CodesOf(flag_in)
        /\ \A i, j \in DOMAIN flag_out :
              (i < j /\ flag_out # EmptyStr)
                  => ToInt(flag_out[i]) < ToInt(flag_out[j])

\* C8 (amended): sort_flags returns the codes of its input in ascending
\* numeric order with no leading separator, each code as many times as it
\* occurs in the input.
C8_SortedMultiset ==
    pc = "sorted" =>
        /\ NoSeparatorLeft(flag_out)
        /\ \A k \in DOMAIN CodeStr : CountOf(flag_out, k) = CountOf(flag_in, k)
        /\ \A i, j \in DOMAIN flag_out :
              (i < j /\ flag_out # EmptyStr)
                  => ToInt(flag_out[i]) <= ToInt(flag_out[j])

\* C8 witness: "12; 2; 1; 2" was sorted to "1; 2; 2; 12"
C8_Witness ==
    /\ pc = "sorted"
    /\ flag_in = <<"12", "2", "1", "2">>
    /\ flag_out = <<"1", "2", "2", "12">>

---------------------------------------------------------------------------
(* Spec: the pipeline from the registry to the flagged table *)

RecordIds == <<"A", "B", "C">>

\* <<Start Year, Start Month, Start Day, End Year, End Month, End Day>>
DateChoices ==
    { <<2015, 1, 20, 2015, 1, 25>>,     \* complete, one month
      <<2015, 1, NA, 2015, 2, 5>>,      \* Start Day missing, two months
      <<2000, 2, 10, 2000, 2, NA>>,     \* before Terra, End Day missing
      <<2015, 1, 20, 2015, NA, NA>> }   \* End Month missing: no End Date
UnitChoices ==
    { UnitsNaN, UnitsBad, UnitsList(<<Adm1Unit(1)>>),
      UnitsList(<<Adm1Unit(1), Adm2Unit(22)>>) }
RegistryFlagChoices == { EmptyStr, <<"7">> }

RegistryRow(id, d, u, f) ==
    [id |-> id,
     StartYear |-> d[1], StartMonth |-> d[2], StartDay |-> d[3],
     EndYear |-> d[4], EndMonth |-> d[5], EndDay |-> d[6],
     start |-> NaT, end |-> NaT,
     AdminUnits |-> u,
     TotalAffected |-> IntV(100), TotalDamage |-> NaN,
     data_processing_flags |-> f]

MonthlyRowsOf(reg) ==
    add_monthly_rows(add_event_dates(expand_admin_zones(reg)))

Init ==
    /\ pc = "registry"
    /\ NoLater
    /\ adm_df = <<>> /\ emdat_df = <<>> /\ metrics_df = <<>>
    /\ alloc_df = <<>> /\ flags_df = <<>>
    /\ flag_in = EmptyStr /\ flag_out = EmptyStr
    /\ \E n \in 1..MaxRecords :
         \E ds \in [1..n -> DateChoices], us \in [1..n -> UnitChoices],
            fs \in [1..n -> RegistryFlagChoices] :
            /\ registry = [i \in 1..n |-> RegistryRow(RecordIds[i], ds[i], us[i], fs[i])]
            /\ Len(MonthlyRowsOf(registry)) <= MaxMonthly

Next ==
    \/ ExpandAndDate
    \/ PrepareMonthly
    \/ ExtractMetrics
    \/ ComputePopWeighted
    \/ AddDataFlags

Spec == Init /\ [][Next]_vars

Flagged == pc \in {"flagged", "reflagged"}

StartDayInferred(r) ==
    IsNa(r.StartDay) /\ ~IsNa(r.StartMonth) /\ ~IsNa(r.StartYear)

\* C7 (as claimed): Start-day inference provenance.  For a registry record
\* with Start Day missing and Start Month and Year present, Start Date is the
\* first of that month, the note is on the rows before month splitting, and
\* every MonthlyEvent of the record carries flag 1 in the final table.
C7_StartDayFlag ==
    \A i \in DOMAIN registry :
        StartDayInferred(registry[i]) =>
            /\ pc # "registry" =>
                 \A a \in DOMAIN adm_df :
                    adm_df[a].id = registry[i].id =>
                       /\ adm_df[a].start = <<registry[i].StartYear,
                                              registry[i].StartMonth, 1>>
                       /\ HasNote(adm_df[a].data_processing_flags, StartNote)
            /\ Flagged =>
                 \A f \in DOMAIN flags_df :
                    (flags_df[f].id = registry[i].id /\ ~flags_df[f].recovered)
                       => HasNote(flags_df[f].flags, "1")

\* C9: FlagSet invariant.  In the final flagged table every row's flag
\* string is empty or lists codes of 1..15 in strictly ascending numeric
\* order (so none is repeated).
C9_FlagSet ==
    Flagged =>
        \A f \in DOMAIN flags_df :
            LET fl == flags_df[f].flags
            IN  \/ fl = EmptyStr
                \/ /\ \A i \in DOMAIN fl : fl[i] \in Range(CodeStr)
                   /\ \A i, j \in DOMAIN fl :
                         i < j => ToInt(fl[i]) < ToInt(fl[j])

\* C9 witness: a row with End Day inferred, before Terra and equally split
\* carries exactly "2; 3; 13"
C9_Witness ==
    /\ Flagged
    /\ \E f \in DOMAIN flags_df : flags_df[f].flags = <<"2", "3", "13">>

---------------------------------------------------------------------------
(* Recovered rows (get_missing_rows) in the final table *)

\* the registry record of an id, with its Start Date and End Date
RegistryDated(id) ==
    LET i == CHOOSE j \in DOMAIN registry : registry[j].id = id
    IN  add_event_dates(<<registry[i]>>)[1]

DateMissing(r) == IsNaT(r.start) \/ IsNaT(r.end)
UnitsMissing(r) == r.AdminUnits.kind = "nan"
RecoveredCodes == {"9", "10", "11"}

\* C11 (as claimed): Recovered-branch codes.  A recovered registry record
\* gets 9 iff its Start or End Date is missing, 10 iff its Admin Units value
\* is missing, 11 iff neither applies; its final flag set holds only codes of
\* {9, 10, 11}; no row of the disaggregated table carries 9, 10 or 11.
C11_RecoveredCodes ==
    Flagged =>
        \A f \in DOMAIN flags_df :
            LET row == flags_df[f]
                r == RegistryDated(row.id)
            IN  IF row.recovered
                THEN /\ HasNote(row.flags, "9") <=> DateMissing(r)
                     /\ HasNote(row.flags, "10") <=> UnitsMissing(r)
                     /\ HasNote(row.flags, "11")
                            <=> (~DateMissing(r) /\ ~UnitsMissing(r))
                     /\ \A t \in DOMAIN row.flags :
                            row.flags[t] \in RecoveredCodes
                ELSE \A t \in DOMAIN row.flags :
                            row.flags[t] \notin RecoveredCodes

\* C12: Referential-gap recovery.  Every id of the preprocessed registry is
\* in at least one row of the final flagged table, as a row of the
\* disaggregated table or as a recovered row.
C12_NoIdDropped ==
    Flagged =>
        \A i \in DOMAIN registry :
            \E f \in DOMAIN flags_df : flags_df[f].id = registry[i].id

\* C12 witness: one record is in the table only through the missing-rows
\* branch, another through its disaggregated rows
C12_Witness ==
    /\ Flagged
    /\ \E i, j \in DOMAIN registry :
          /\ \A f \in DOMAIN flags_df :
                flags_df[f].id = registry[i].id => flags_df[f].recovered
          /\ \E f \in DOMAIN flags_df :
                flags_df[f].id = registry[j].id /\ ~flags_df[f].recovered

---------------------------------------------------------------------------
(* add_normalized_impacts.py *)

\* map_years_to_gpw_intervals(): {year: year - (year % 5)} for 2000..2024
PopYrFirst == 2000
PopYrLast == 2024
PopYrKeys == PopYrFirst..PopYrLast
map_years_to_gpw_intervals == [year \in PopYrKeys |-> year - (year % 5)]
GpwYears == {map_years_to_gpw_intervals[y] : y \in PopYrKeys}

\* gdp_cols: gdp_1990 .. gdp_2024
GdpFirst == 1990
GdpLast == 2024
GdpYears == GdpFirst..GdpLast

\* The outcome of a call: a returned float, or an exception
Returned(x) == [raised |-> FALSE, value |-> x]
Raised == [raised |-> TRUE, value |-> NaN]

\* int(mon_yr[-4:])
YearOf(mon_yr) == mon_yr[2]

\* df[df["adm1_code"] == adm1_code][col].item(): the value of the only
\* matching row; ValueError when the selection is not of size 1
Item(df, adm1_code, col) ==
    LET hits == {i \in DOMAIN df : df[i].adm1_code = adm1_code}
    IN  IF Cardinality(hits) = 1
        THEN Returned(col[CHOOSE i \in hits : TRUE])
        ELSE Raised

Hundred == IntV(100)

\* (numerator / denominator) * 100 on the looked-up denominator
Percent(numerator, lookup) ==
    IF lookup.raised THEN Raised
    ELSE Returned(FMul(FDiv(numerator, lookup.value), Hundred))

damages_gdp_standardized(row, gdp) ==
    LET damages == row.TotalDamage
        year == YearOf(row.mon_yr)
        GdpCell == [i \in DOMAIN gdp |-> gdp[i].gdp[year]]
    IN  IF row.mon_yr = <<>> \/ IsNa(row.adm1_code) \/ IsNaN(damages)
        THEN Returned(NaN)
        ELSE IF year \notin GdpYears THEN Raised
        ELSE Percent(damages, Item(gdp, row.adm1_code, GdpCell))

ppl_affected_normalized(row, pop_yr_dict, gpw) ==
    LET people_affected == row.TotalAffected
        year == YearOf(row.mon_yr)
        PopCell == [i \in DOMAIN gpw |-> gpw[i].pop[pop_yr_dict[year]]]
    IN  IF row.mon_yr = <<>> \/ IsNa(row.adm1_code) \/ IsNaN(people_affected)
        THEN Returned(NaN)
        ELSE IF year \notin DOMAIN pop_yr_dict THEN Raised
        ELSE Percent(people_affected, Item(gpw, row.adm1_code, PopCell))

flooded_area_normalized(row, gpw) ==
    LET AreaCell == [i \in DOMAIN gpw |-> gpw[i].area_km2]
    IN  IF IsNa(row.adm1_code) \/ IsNaN(row.flooded_area)
        THEN Returned(NaN)
        ELSE Percent(row.flooded_area, Item(gpw, row.adm1_code, AreaCell))

\* the three events_df.apply(...) calls of main; an exception in a row
\* ends the run before the output file is written
NormalizedRow(row, gpw, gdp) ==
    [row EXCEPT
        !.TotalAffected_pwn =
            ppl_affected_normalized(row, map_years_to_gpw_intervals, gpw).value,
        !.flooded_area_norm = flooded_area_normalized(row, gpw).value,
        !.TotalDamage_pwn = damages_gdp_standardized(row, gdp).value]

RowRaises(row, gpw, gdp) ==
    \/ ppl_affected_normalized(row, map_years_to_gpw_intervals, gpw).raised
    \/ flooded_area_normalized(row, gpw).raised
    \/ damages_gdp_standardized(row, gdp).raised

AddNormalizedImpacts ==
    /\ pc = "cleaned"
    /\ IF \E i \in DOMAIN events_df : RowRaises(events_df[i], gpw_df, gdp_df)
       THEN /\ pc' = "norm_raised"
            /\ UNCHANGED events_df
       ELSE /\ pc' = "normalized"
            /\ events_df' = [i \in DOMAIN events_df |->
                                NormalizedRow(events_df[i], gpw_df, gdp_df)]
    /\ UNCHANGED <<registry, adm_df, emdat_df, metrics_df, alloc_df, flags_df,
                   flag_in, flag_out, gpw_df, gdp_df, panel_df,
                   job, job_env, job_csv, loop>>

---------------------------------------------------------------------------
(* SpecNorm: normalization of event-level rows *)

MaxNormRows == 2

\* a row of CLEANED_event_metrics_with_pop_weighted_damages_and_flags.csv
EventRow(id, mon_yr, adm1, imp, area, flags) ==
    [id |-> id, key |-> <<>>, mon_yr |-> mon_yr, adm1_code |-> adm1,
     TotalAffected |-> imp[1], TotalAffected_pw |-> imp[2],
     TotalDamage |-> imp[3], TotalDamage_pw |-> imp[4],
     flooded_area |-> area, flags |-> flags,
     TotalAffected_pwn |-> NaN, flooded_area_norm |-> NaN,
     TotalDamage_pwn |-> NaN]

\* <<Total Affected, its allocated share, Total Damage, its allocated share>>
ImpactChoices ==
    { <<NaN, NaN, NaN, NaN>>, <<IntV(100), IntV(40), IntV(60), IntV(24)>>,
      <<IntV(100), NaN, NaN, NaN>>, <<NaN, NaN, IntV(60), IntV(24)>> }
NormMonYrs == { <<>>, <<1, 2015>>, <<6, 2024>> }
NormAdm1 == { NA, 1, 2 }
NormAreas == { NaN, IntV(2) }

\* reference rows: population by GPW year, area, GDP by year
GpwRow(c) ==
    [adm1_code |-> c, pop |-> [y \in GpwYears |-> IntV(1000 * c + (y - 2000))],
     area_km2 |-> IntV(50 * c)]
GpwRowNaN(c) ==
    [adm1_code |-> c, pop |-> [y \in GpwYears |-> NaN], area_km2 |-> NaN]
GdpRow(c) ==
    [adm1_code |-> c, gdp |-> [y \in GdpYears |-> IntV(c * (y - 1980))]]
GdpRowNaN(c) ==
    [adm1_code |-> c, gdp |-> [y \in GdpYears |-> NaN]]

GpwChoices == { <<GpwRow(1), GpwRow(2)>>, <<GpwRow(1), GpwRowNaN(2)>>,
                <<GpwRow(1)>> }
GdpChoices == { <<GdpRow(1), GdpRow(2)>>, <<GdpRow(1), GdpRowNaN(2)>>,
                <<GdpRow(1)>> }

InitNorm ==
    /\ pc = "cleaned"
    /\ registry = <<>> /\ adm_df = <<>> /\ emdat_df = <<>>
    /\ metrics_df = <<>> /\ alloc_df = <<>> /\ flags_df = <<>>
    /\ flag_in = EmptyStr /\ flag_out = EmptyStr
    /\ panel_df = <<>>
    /\ job = <<>> /\ job_env = "none" /\ job_csv = <<>>
    /\ NoLoop
    /\ gpw_df \in GpwChoices
    /\ gdp_df \in GdpChoices
    /\ \E n \in 1..MaxNormRows :
         \E ms \in [1..n -> NormMonYrs], cs \in [1..n -> NormAdm1],
            is \in [1..n -> ImpactChoices], as \in [1..n -> NormAreas] :
            events_df = [i \in 1..n |->
                EventRow(RecordIds[i], ms[i], cs[i], is[i], as[i], EmptyStr)]

NextNorm == AddNormalizedImpacts

SpecNorm == InitNorm /\ [][NextNorm]_vars

\* every input of the row's two normalizations is present
AllInputsPresent(row) ==
    /\ row.mon_yr # <<>> /\ ~IsNa(row.adm1_code)
    /\ IsFinite(row.TotalAffected) /\ IsFinite(row.TotalAffected_pw)
    /\ IsFinite(row.TotalDamage) /\ IsFinite(row.TotalDamage_pw)
    /\ \E g \in DOMAIN gpw_df :
          /\ gpw_df[g].adm1_code = row.adm1_code
          /\ \A y \in GpwYears : IsFinite(gpw_df[g].pop[y])
    /\ \E g \in DOMAIN gdp_df :
          /\ gdp_df[g].adm1_code = row.adm1_code
          /\ \A y \in GdpYears : IsFinite(gdp_df[g].gdp[y])

PopOf(adm1, y) ==
    (CHOOSE r \in Range(gpw_df) : r.adm1_code = adm1).pop[y]
GdpOf(adm1, y) ==
    (CHOOSE r \in Range(gdp_df) : r.adm1_code = adm1).gdp[y]

\* C13 (as claimed): Normalization numerators.  For a MonthlyEvent with all
\* inputs present, the normalized Total Affected is 100 x its allocated
\* (population-weighted) Total Affected / population of its admin unit in the
\* GPW year (year - year mod 5), and the GDP-normalized damage is 100 x its
\* allocated damage / GDP of its admin unit in the event year.
C13_NormalizedAllocated ==
    pc = "normalized" =>
        \A i \in DOMAIN events_df :
            LET row == events_df[i]
                year == YearOf(row.mon_yr)
            IN  AllInputsPresent(row) =>
                  /\ row.TotalAffected_pwn =
                        FDiv(FMul(Hundred, row.TotalAffected_pw),
                             PopOf(row.adm1_code, year - (year % 5)))
                  /\ row.TotalDamage_pwn =
                        FDiv(FMul(Hundred, row.TotalDamage_pw),
                             GdpOf(row.adm1_code, year))

\* the reference entry of an admin unit is missing: no row, or a NaN cell
NoEntry(df, adm1) == \A g \in DOMAIN df : df[g].adm1_code # adm1
PopMissing(row) ==
    \/ NoEntry(gpw_df, row.adm1_code)
    \/ IsNaN(PopOf(row.adm1_code, map_years_to_gpw_intervals[YearOf(row.mon_yr)]))
GdpMissing(row) ==
    \/ NoEntry(gdp_df, row.adm1_code)
    \/ IsNaN(GdpOf(row.adm1_code, YearOf(row.mon_yr)))
AreaMissing(row) ==
    \/ NoEntry(gpw_df, row.adm1_code)
    \/ IsNaN((CHOOSE r \in Range(gpw_df) : r.adm1_code = row.adm1_code).area_km2)

\* C14 (as claimed): Normalization error policy.  Normalization never
\* raises, and a row whose adm1_code, year, numerator or denominator entry
\* is missing gets NaN from the normalization function concerned.
C14_MissingGivesNaN ==
    /\ pc # "norm_raised"
    /\ pc = "normalized" =>
        \A i \in DOMAIN events_df :
            LET row == events_df[i]
                keyless == row.mon_yr = <<>> \/ IsNa(row.adm1_code)
            IN  /\ (keyless \/ IsNaN(row.TotalAffected) \/ PopMissing(row))
                      => IsNaN(row.TotalAffected_pwn)
                /\ (keyless \/ IsNaN(row.TotalDamage) \/ GdpMissing(row))
                      => IsNaN(row.TotalDamage_pwn)
                /\ (IsNa(row.adm1_code) \/ IsNaN(row.flooded_area)
                        \/ AreaMissing(row))
                      => IsNaN(row.flooded_area_norm)

---------------------------------------------------------------------------
(* prepare_panel_dataset.py *)

\* filter_by_flags(df, flags, exclude=True): rows whose flag string holds
\* none of the codes
filter_by_flags(df, codes) ==
    SeqFilter(df, [i \in DOMAIN df |->
        \A c \in codes : ~HasNote(df[i].flags, Str(c))])

PanelExcluded == {9, 10, 11}

\* main, lines 60-72: events with a mon-yr and without flags 9, 10, 11
RetainedEvents(df) ==
    filter_by_flags(SeqFilter(df, [i \in DOMAIN df |-> df[i].mon_yr # <<>>]),
                    PanelExcluded)

\* order of two finite floats
FLess(x, y) ==
    LET g == GCD(x.d, y.d)
    IN  x.n * (y.d \div g) < y.n * (x.d \div g)

RECURSIVE InsertF(_, _)
InsertF(x, s) ==
    IF s = <<>> THEN <<x>>
    ELSE IF FLess(x, Head(s)) THEN <<x>> \o s
         ELSE <<Head(s)>> \o InsertF(x, Tail(s))
RECURSIVE SortF(_)
SortF(s) == IF s = <<>> THEN <<>> ELSE InsertF(Head(s), SortF(Tail(s)))

\* Series.quantile(q), q = qn/100: NaN skipped, linear interpolation
\* between the order statistics around position (n - 1) * q
Quantile(values, qn) ==
    LET v == SortF(SeqFilter(values, [i \in DOMAIN values |-> ~IsNaN(values[i])]))
        n == Len(v)
        lo == ((n - 1) * qn) \div 100
        fr == ((n - 1) * qn) % 100
    IN  IF n = 0 THEN NaN
        ELSE IF fr = 0 THEN v[lo + 1]
        ELSE FAdd(FMul(v[lo + 1], Rat(100 - fr, 100)),
                  FMul(v[lo + 2], Rat(fr, 100)))

\* round half to even of a / b
RoundHalfEven(a, b) ==
    LET q == a \div b
        r == a % b
    IN  IF 2 * r < b THEN q
        ELSE IF 2 * r > b THEN q + 1
        ELSE IF q % 2 = 0 THEN q ELSE q + 1

\* .round(5)
Decimals5 == 100000
RoundMutUnits(x) ==
    IF ~IsFinite(x) THEN x ELSE IntV(RoundHalfEven(x.n, x.d))
Round(x) ==
    IF ~IsFinite(x) THEN x
    ELSE LET g == GCD(Decimals5, x.d)
         IN  Norm(RoundHalfEven(x.n * (Decimals5 \div g), x.d \div g),
                  Decimals5)

\* the percentiles of the fill values
EventPercentile == 5
NoEventPercentile == 2

\* main, lines 76-91: fill value of a column
FillValue(event_df, col, qn) == Round(Quantile(Column(event_df, col), qn))

\* Series.fillna(value)
FillNa(x, value) == IF IsNaN(x) THEN value ELSE x

\* main, lines 96-105: events with missing normalized impacts infilled
InfillEventsMutNone(event_df) == event_df
InfillEvents(event_df) ==
    LET fa == FillValue(event_df, "TotalAffected_pwn", EventPercentile)
        fd == FillValue(event_df, "TotalDamage_pwn", EventPercentile)
    IN  [i \in DOMAIN event_df |->
            [event_df[i] EXCEPT !.TotalAffected_pwn = FillNa(@, fa),
                                !.TotalDamage_pwn = FillNa(@, fd)]]

\* event_df["adm1_code"].unique(): codes in order of first appearance
RECURSIVE UniqueAdm1(_)
UniqueAdm1(df) ==
    IF df = <<>> THEN <<>>
    ELSE LET rest == UniqueAdm1(Tail(df))
         IN  <<Head(df).adm1_code>> \o
             SeqFilter(rest, [j \in DOMAIN rest |-> rest[j] # Head(df).adm1_code])

\* all_mon_yr: f"{month:02d}-{year}" for year in 2000..2024, month in 1..12
StudyFirstYear == 2000
StudyLastYear == 2024
MonthsPerYear == 12
StudyMonths == (StudyLastYear - StudyFirstYear + 1) * MonthsPerYear
all_mon_yr ==
    [k \in 1..StudyMonths |->
        <<((k - 1) % MonthsPerYear) + 1,
          StudyFirstYear + ((k - 1) \div MonthsPerYear)>>]

\* pd.MultiIndex.from_product([unique_admin1, all_mon_yr])
complete_indexMutFirstMonth(unique_admin1) ==
    [k \in 1..Len(unique_admin1) |->
        [adm1_code |-> unique_admin1[k], mon_yr |-> all_mon_yr[1]]]
complete_index(unique_admin1) ==
    [k \in 1..(Len(unique_admin1) * StudyMonths) |->
        [adm1_code |-> unique_admin1[((k - 1) \div StudyMonths) + 1],
         mon_yr |-> all_mon_yr[((k - 1) % StudyMonths) + 1]]]

\* np.log of a float: a number for x > 0, -inf for 0, NaN for NaN
LogNaN == [kind |-> "nan", of |-> NaN]
LogNegInf == [kind |-> "-inf", of |-> IntV(0)]
Log(x) ==
    IF IsNaN(x) THEN LogNaN
    ELSE IF Eq0(x) THEN LogNegInf
    ELSE [kind |-> "ln", of |-> x]

\* groupby(["mon-yr", "adm1_code"]).agg(sum / max) of one cell, merged
\* into the cell (how="left"), then the fills and the logarithms
CellEventsMutAnyMonth(events, cell) ==
    SeqFilter(events, [i \in DOMAIN events |->
        events[i].adm1_code = cell.adm1_code])
CellEvents(events, cell) ==
    SeqFilter(events, [i \in DOMAIN events |->
        events[i].adm1_code = cell.adm1_code /\ events[i].mon_yr = cell.mon_yr])

PanelRow(events, cell, fa, fd) ==
    LET mine == CellEvents(events, cell)
        has == mine # <<>>
        tan == IF has THEN SumSkipNa(Column(mine, "TotalAffected_pwn")) ELSE NaN
        dgs == IF has THEN SumSkipNa(Column(mine, "TotalDamage_pwn")) ELSE NaN
        ta == IF has THEN SumSkipNa(Column(mine, "TotalAffected_pw")) ELSE NaN
        dm == IF has THEN SumSkipNa(Column(mine, "TotalDamage_pw")) ELSE NaN
        tanf == FillNa(tan, fa)
        dgsf == FillNa(dgs, fd)
    IN  [adm1_code |-> cell.adm1_code, mon_yr |-> cell.mon_yr,
         total_affected_normalized |-> tanf,
         damages_gdp_standardized |-> dgsf,
         ln_total_affected_normalized |-> Log(tanf),
         ln_damages_gdp_standardized |-> Log(dgsf),
         total_affected |-> FillNa(ta, IntV(0)),
         damages |-> FillNa(dm, IntV(0)),
         event_occurrance |-> IF has THEN 1 ELSE 0]

\* main: the whole panel stage
prepare_panel_dataset(df) ==
    LET event_df == RetainedEvents(df)
        fa == FillValue(event_df, "TotalAffected_pwn", NoEventPercentile)
        fd == FillValue(event_df, "TotalDamage_pwn", NoEventPercentile)
        filled == InfillEvents(event_df)
        unique_admin1 == UniqueAdm1(filled)
        index == complete_index(unique_admin1)
        panel == [k \in DOMAIN index |-> PanelRow(filled, index[k], fa, fd)]
        Flooded(row) ==
            \E i \in DOMAIN event_df : event_df[i].adm1_code = row.adm1_code
    IN  SelectSeq(panel, Flooded)

PreparePanel ==
    /\ pc = "event_level"
    /\ panel_df' = prepare_panel_dataset(events_df)
    /\ pc' = "panel"
    /\ UNCHANGED <<registry, adm_df, emdat_df, metrics_df, alloc_df, flags_df,
                   flag_in, flag_out, gpw_df, gdp_df, events_df,
                   job, job_env, job_csv, loop>>

---------------------------------------------------------------------------
(* SpecPanel: panel assembly from event-level rows *)

MaxPanelEvents == 3

\* <<mon-yr, adm1_code, flags>> of an event-level row: MonthlyEvents in the
\* first and the last month of the study window, an undated row, a
\* recovered record
PanelKinds ==
    << << <<1, 2000>>, 1, EmptyStr >>, << <<12, 2024>>, 2, <<"1", "12">> >>,
       << <<>>, 1, EmptyStr >>, << <<>>, NA, <<"11">> >> >>

\* <<Total Affected (pw, normalized), Total Damage (pw, normalized by GDP),
\*   Total Affected (pw), Total Damage (pw)>>
PanelImpacts ==
    << <<NaN, NaN, NaN, NaN>>, <<IntV(1), IntV(1), IntV(40), IntV(24)>>,
       <<IntV(3), NaN, IntV(70), NaN>>,
       <<Rat(1, 400000), IntV(2), IntV(1), IntV(30)>> >>

PanelEventRow(id, kind, imp) ==
    [id |-> id, key |-> <<>>, mon_yr |-> kind[1], adm1_code |-> kind[2],
     TotalAffected |-> NaN, TotalAffected_pw |-> imp[3],
     TotalDamage |-> NaN, TotalDamage_pw |-> imp[4],
     flooded_area |-> NaN, flags |-> kind[3],
     TotalAffected_pwn |-> imp[1], flooded_area_norm |-> NaN,
     TotalDamage_pwn |-> imp[2]]

\* The rows are listed in one order per choice of rows (the stage treats
\* the table as a set of rows: only the order of the panel depends on it)
InitPanel ==
    /\ pc = "event_level"
    /\ registry = <<>> /\ adm_df = <<>> /\ emdat_df = <<>>
    /\ metrics_df = <<>> /\ alloc_df = <<>> /\ flags_df = <<>>
    /\ flag_in = EmptyStr /\ flag_out = EmptyStr
    /\ gpw_df = <<>> /\ gdp_df = <<>> /\ panel_df = <<>>
    /\ job = <<>> /\ job_env = "none" /\ job_csv = <<>>
    /\ NoLoop
    /\ \E n \in 1..MaxPanelEvents :
         \E ks \in [1..n -> DOMAIN PanelKinds],
            is \in [1..n -> DOMAIN PanelImpacts] :
            /\ \A i \in 1..(n - 1) :
                  ks[i] * Len(PanelImpacts) + is[i]
                      <= ks[i + 1] * Len(PanelImpacts) + is[i + 1]
            /\ events_df = [i \in 1..n |->
                  PanelEventRow(RecordIds[((i - 1) % Len(RecordIds)) + 1],
                                PanelKinds[ks[i]], PanelImpacts[is[i]])]

NextPanel == PreparePanel

SpecPanel == InitPanel /\ [][NextPanel]_vars

\* a retained flood event: it has a mon-yr and none of the flags 9, 10, 11
Retained(r) ==
    /\ r.mon_yr # <<>>
    /\ ~HasNote(r.flags, "9") /\ ~HasNote(r.flags, "10")
    /\ ~HasNote(r.flags, "11")
RetainedRows == SeqFilter(events_df, [i \in DOMAIN events_df |-> Retained(events_df[i])])
EventsAt(adm1, mon_yr) ==
    SeqFilter(events_df, [i \in DOMAIN events_df |->
        /\ Retained(events_df[i])
        /\ events_df[i].adm1_code = adm1 /\ events_df[i].mon_yr = mon_yr])

ConstantOf(col, percentile) ==
    Round(Quantile(Column(RetainedRows, col), percentile))
Filled(x, value) == IF IsNaN(x) THEN value ELSE x
FilledColumn(rows, col) ==
    [i \in DOMAIN rows |-> Filled(rows[i][col], ConstantOf(col, 5))]

Present(rows, col) ==
    SeqFilter(Column(rows, col), [i \in DOMAIN rows |-> ~IsNaN(rows[i][col])])
MissingCount(rows, col) ==
    Cardinality({i \in DOMAIN rows : IsNaN(rows[i][col])})

\* what the events of a cell add up to: the present values plus the
\* constant once per event without a value
InfilledSum(rows, col, constant) ==
    LET m == MissingCount(rows, col)
    IN  IF m = 0 \/ IsNaN(constant) THEN SumSkipNa(Present(rows, col))
        ELSE FAdd(SumSkipNa(Present(rows, col)), FMul(IntV(m), constant))

\* C17: Missing-impact infill.  A retained MonthlyEvent without a normalized
\* impact value contributes the variable's 5th-percentile constant to its
\* cell: the normalized value of an event cell is the sum over its events
\* of the value, or of that constant where the value is missing, and never
\* the 2nd-percentile constant.
C17_MissingImpactInfill ==
    pc = "panel" =>
        \A k \in DOMAIN panel_df :
            LET cell == panel_df[k]
                mine == EventsAt(cell.adm1_code, cell.mon_yr)
            IN  mine # <<>> =>
                  /\ cell.total_affected_normalized =
                        InfilledSum(mine, "TotalAffected_pwn",
                                    ConstantOf("TotalAffected_pwn", 5))
                  /\ cell.damages_gdp_standardized =
                        InfilledSum(mine, "TotalDamage_pwn",
                                    ConstantOf("TotalDamage_pwn", 5))

\* C17 witness: a cell of one event with a missing normalized damage holds
\* the 5th-percentile constant, which is not the 2nd-percentile constant
C17_Witness ==
    /\ pc = "panel"
    /\ ConstantOf("TotalDamage_pwn", 2) # ConstantOf("TotalDamage_pwn", 5)
    /\ \E k \in DOMAIN panel_df :
          LET mine == EventsAt(panel_df[k].adm1_code, panel_df[k].mon_yr)
          IN  /\ Len(mine) = 1 /\ IsNaN(mine[1].TotalDamage_pwn)
              /\ panel_df[k].damages_gdp_standardized =
                    ConstantOf("TotalDamage_pwn", 5)

NormalizedColumns == {"TotalAffected_pwn", "TotalDamage_pwn"}

\* the values of a column over the retained events are not all equal
NonDegenerate(col) ==
    \E i, j \in DOMAIN RetainedRows :
        /\ ~IsNaN(RetainedRows[i][col]) /\ ~IsNaN(RetainedRows[j][col])
        /\ RetainedRows[i][col] # RetainedRows[j][col]
HasValues(col) == \E i \in DOMAIN RetainedRows : ~IsNaN(RetainedRows[i][col])

RoundingStep == Rat(1, 100000)

C19_LogDefined ==
    pc = "panel" =>
        \A k \in DOMAIN panel_df :
            LET cell == panel_df[k]
            IN  /\ cell.ln_total_affected_normalized =
                      Log(cell.total_affected_normalized)
                /\ cell.ln_damages_gdp_standardized =
                      Log(cell.damages_gdp_standardized)
                /\ cell.ln_total_affected_normalized.kind = "ln"
                /\ cell.ln_damages_gdp_standardized.kind = "ln"

---------------------------------------------------------------------------
(* extract_flood_metrics.py, main: one extraction job, step by step *)

\* the statements of the try block that can raise, in the order of the code
JobSteps ==
    <<"dir", "parse", "tif", "gpw", "clip", "grid", "distinct", "mask",
      "duration">>
StepIndex(step) == CHOOSE k \in DOMAIN JobSteps : JobSteps[k] = step

\* the exception each step raises
Exc(class, message) == [class |-> class, message |-> message]
ExcOf(step) ==
    IF step = "dir"
    THEN Exc("NotADirectoryError", "Directory does not exist: ../data/GPW_by_adm1/")
    ELSE IF step = "parse" THEN Exc("KeyError", "34")
    ELSE IF step = "tif"
    THEN Exc("RasterioIOError", "x.tif: No such file or directory")
    ELSE IF step = "gpw"
    THEN Exc("FileNotFoundError", "data/GPW_by_adm1/ file")
    ELSE IF step = "clip" THEN Exc("NoDataInBounds", "No data found in bounds.")
    ELSE IF step = "grid"
    THEN Exc("ValueError", "Coordinate 'x' has mismatched shapes")
    ELSE IF step = "distinct"
    THEN Exc("ValueError",
             "Flooded image and GPW population data have distinct grids.")
    ELSE IF step = "mask" THEN Exc("KeyError", "'flooded'")
    ELSE Exc("KeyError", "'duration'")

\* f"{type(e).__name__}: {e}"
FormatError(e) == e.class \o ": " \o e.message

\* the step at which the job stops: the directories are checked first, then
\* the year and the adm1 code are parsed from the argument, then the files
\* are opened
FirstFailure(mon_yr_adm1_id, env) ==
    IF env = "dir" THEN "dir"
    ELSE IF ~Extractable(mon_yr_adm1_id) THEN "parse"
    ELSE env

\* a step was completed before the job stopped
Passed(step, failure) ==
    failure = "none" \/ StepIndex(step) < StepIndex(failure)

\* what the rasters of the admin unit hold when they can be read
SceneTotalPopulation == IntV(5)
SceneFlooded == <<IntV(2), IntV(3)>>
SceneDuration == IntV(4)

\* the result of main: the row of the CSV written by the finally block, or
\* Raised when the finally block itself raises (adm1_code is bound at the
\* end of the parse step and nowhere else)
extract_flood_metrics(mon_yr_adm1_id, env) ==
    LET failure == FirstFailure(mon_yr_adm1_id, env)
        error == IF failure = "none" THEN "" ELSE FormatError(ExcOf(failure))
    IN  IF ~Passed("parse", failure) THEN Raised
        ELSE Returned(
            [key |-> mon_yr_adm1_id,
             adm1_code |-> mon_yr_adm1_id[3],
             total_population |->
                 IF Passed("distinct", failure) THEN SceneTotalPopulation ELSE NaN,
             flooded_area |->
                 IF Passed("mask", failure) THEN SceneFlooded[1] ELSE NaN,
             flooded_population |->
                 IF Passed("mask", failure) THEN SceneFlooded[2] ELSE NaN,
             mean_duration_flooded_pixels |->
                 IF Passed("duration", failure) THEN SceneDuration ELSE NaN,
             metrics_error |-> error])

ExtractJob ==
    /\ pc = "job"
    /\ LET result == extract_flood_metrics(job, job_env)
       IN  IF result = Raised
           THEN pc' = "job_raised" /\ job_csv' = <<>>
           ELSE pc' = "job_done" /\ job_csv' = <<result.value>>
    /\ UNCHANGED <<registry, adm_df, emdat_df, metrics_df, alloc_df, flags_df,
                   flag_in, flag_out, gpw_df, gdp_df, events_df, panel_df,
                   job, job_env, loop>>

---------------------------------------------------------------------------
(* SpecExtract: one extraction job for every key and every failing step *)

JobAdm1 == {1, 2}

\* mon-yr-adm1-id of dated rows, and of rows without a month ("-<adm1>")
JobKeys ==
    {<<m, RecordIds[i], a>> : m \in 1..MonthsPerYear, i \in DOMAIN RecordIds,
                              a \in JobAdm1}
        \cup {<<a>> : a \in JobAdm1}

JobEnvs == {JobSteps[k] : k \in DOMAIN JobSteps} \cup {"none"}

InitExtract ==
    /\ pc = "job"
    /\ registry = <<>> /\ adm_df = <<>> /\ emdat_df = <<>>
    /\ metrics_df = <<>> /\ alloc_df = <<>> /\ flags_df = <<>>
    /\ flag_in = EmptyStr /\ flag_out = EmptyStr
    /\ gpw_df = <<>> /\ gdp_df = <<>> /\ events_df = <<>> /\ panel_df = <<>>
    /\ job \in JobKeys
    /\ job_env \in JobEnvs
    /\ job_csv = <<>>
    /\ NoLoop

NextExtract == ExtractJob

SpecExtract == InitExtract /\ [][NextExtract]_vars

\* the metrics of an output row that are derived from the rasters
DerivedMetrics(row) ==
    <<row.total_population, row.flooded_area, row.flooded_population,
      row.mean_duration_flooded_pixels>>
AllNaN(values) == \A k \in DOMAIN values : IsNaN(values[k])

\* the string has the form "ClassName: message"
Structured(error) ==
    \E k \in DOMAIN JobSteps : error = FormatError(ExcOf(JobSteps[k]))

JobFailed == FirstFailure(job, job_env) # "none"

\* C20 (as claimed): Extraction failure isolation.  For every key and
\* whichever step of the extraction fails, the run does not raise: it writes
\* exactly one output row for the key, whose metrics_error is the string
\* "ClassName: message" and whose derived metrics are all NaN.
C20_FailureIsolated ==
    (pc # "job" /\ JobFailed) =>
        /\ pc = "job_done"
        /\ Len(job_csv) = 1
        /\ job_csv[1].key = job
        /\ Structured(job_csv[1].metrics_error)
        /\ AllNaN(DerivedMetrics(job_csv[1]))

---------------------------------------------------------------------------
(* SpecExpand: admin-unit expansion of registry tables with bad records *)

ExpandUnitChoices == UnitChoices \cup {UnitsNonDict}
ExpandDates == <<2015, 1, 20, 2015, 1, 25>>

InitExpand ==
    /\ pc = "registry"
    /\ NoLater
    /\ adm_df = <<>> /\ emdat_df = <<>> /\ metrics_df = <<>>
    /\ alloc_df = <<>> /\ flags_df = <<>>
    /\ flag_in = EmptyStr /\ flag_out = EmptyStr
    /\ \E n \in 1..MaxRecords :
         \E us \in [1..n -> ExpandUnitChoices],
            fs \in [1..n -> RegistryFlagChoices] :
            registry = [i \in 1..n |->
                           RegistryRow(RecordIds[i], ExpandDates, us[i], fs[i])]

NextExpand == ExpandAndDate

SpecExpand == InitExpand /\ [][NextExpand]_vars

\* the Admin Units value is no list of admin-unit entries
Unparsable(r) == r.AdminUnits.kind # "list"
ParsableRecords ==
    SeqFilter(registry, [i \in DOMAIN registry |-> ~Unparsable(registry[i])])

\* C21 (as claimed): Parse-failure isolation.  For every registry table,
\* expansion completes; a record whose Admin Units value cannot be parsed
\* contributes no AdminUnitEvent row and the other records yield exactly the
\* rows they yield when the bad records are absent.
C21_ParseIsolation ==
    (pc # "registry" /\ \E i \in DOMAIN registry : Unparsable(registry[i])) =>
        /\ pc = "adm"
        /\ \A i \in DOMAIN registry :
              Unparsable(registry[i]) =>
                 \A a \in DOMAIN adm_df : adm_df[a].id # registry[i].id
        /\ adm_df = add_event_dates(expand_admin_zones(ParsableRecords))

---------------------------------------------------------------------------
(* detect_flooded_pixels.py: the submission loop of main *)

\* manage_task_queue(logger, threshold=290, sleep_length=900)
TaskThreshold == 290

\* process_event: began or ended is NaN
InvalidDate(event) == IsNaT(event.start) \/ IsNaT(event.end)
\* process_event: strptime(began) <= strptime("2000-02-25")
TerraRefuses(event) ==
    ~InvalidDate(event) /\ DateLE(event.start, <<2000, 2, 25>>)

\* emdat_floods[emdat_floods["mon-yr-adm1-id"] == event_id]
EventsOf(event_id) ==
    SeqFilter(emdat_df, [i \in DOMAIN emdat_df |-> emdat_df[i].key = event_id])

LogEntry(event_id, succeeded, error_type, error_message) ==
    [event_id |-> event_id, succeeded |-> succeeded,
     error_type |-> error_type, error_message |-> error_message]
LogSuccess(event_id) == LogEntry(event_id, TRUE, "nan", "nan")
LogFailure(event_id, e) == LogEntry(event_id, FALSE, e.class, e.message)

ExcNoEvent == Exc("ValueError", "No event found for id")
ExcInvalidDate == Exc("ValueError", "Start or end date is NaN or None.")
ExcTerra == Exc("ValueError", "Start date is before 2000-02-25")
ExcEarthEngine == Exc("EEException", "Earth Engine request failed")

\* a loop that stops at the first failure
FailEventMutAbort(e) ==
    /\ log_csv' = Append(log_csv, LogFailure(flood_ids[event_num], e))
    /\ pc' = "loop_done"
    /\ UNCHANGED <<event_num, snooze_button, exports>>

\* except / finally of one iteration: the failure is logged and the loop
\* goes on with the next id
FailEvent(e) ==
    /\ log_csv' = Append(log_csv, LogFailure(flood_ids[event_num], e))
    /\ event_num' = event_num + 1
    /\ pc' = "loop"
    /\ UNCHANGED <<snooze_button, exports>>

\* top of an iteration up to the call of manage_task_queue (the pause taken
\* when snooze_button is a multiple of 50 changes no table and no counter)
StartEvent ==
    /\ pc = "loop"
    /\ event_num <= Len(flood_ids)
    /\ attempts' = Append(attempts, flood_ids[event_num])
    /\ polled' = NoPoll
    /\ sleeps' = 0
    /\ IF Len(EventsOf(flood_ids[event_num])) < 1
       THEN FailEvent(ExcNoEvent)
       ELSE /\ pc' = "queue"
            /\ UNCHANGED <<event_num, snooze_button, exports, log_csv>>
    /\ UNCHANGED <<registry, adm_df, emdat_df, metrics_df, alloc_df, flags_df,
                   flag_in, flag_out, gpw_df, gdp_df, events_df, panel_df,
                   job, job_env, job_csv, flood_ids>>

\* one turn of the while loop of manage_task_queue: the count is polled;
\* at or above the threshold the loop sleeps and polls again
MaxSleeps == 2
QueueCounts == {0, TaskThreshold - 1, TaskThreshold, TaskThreshold + 1}

\* a queue manager that never waits
PollQueueMutNoSleep ==
    /\ pc = "queue"
    /\ \E count \in QueueCounts :
          /\ polled' = count
          /\ sleeps' = sleeps /\ pc' = "run"
    /\ UNCHANGED <<registry, adm_df, emdat_df, metrics_df, alloc_df, flags_df,
                   flag_in, flag_out, gpw_df, gdp_df, events_df, panel_df,
                   job, job_env, job_csv, flood_ids, event_num, snooze_button,
                   attempts, exports, log_csv>>

PollQueue ==
    /\ pc = "queue"
    /\ \E count \in QueueCounts :
          /\ count >= TaskThreshold => sleeps < MaxSleeps
          /\ polled' = count
          /\ IF count >= TaskThreshold
             THEN sleeps' = sleeps + 1 /\ pc' = "queue"
             ELSE sleeps' = sleeps /\ pc' = "run"
    /\ UNCHANGED <<registry, adm_df, emdat_df, metrics_df, alloc_df, flags_df,
                   flag_in, flag_out, gpw_df, gdp_df, events_df, panel_df,
                   job, job_env, job_csv, flood_ids, event_num, snooze_button,
                   attempts, exports, log_csv>>

\* ee.batch.Task.list() raises inside manage_task_queue
PollFails ==
    /\ pc = "queue"
    /\ FailEvent(ExcEarthEngine)
    /\ UNCHANGED <<registry, adm_df, emdat_df, metrics_df, alloc_df, flags_df,
                   flag_in, flag_out, gpw_df, gdp_df, events_df, panel_df,
                   job, job_env, job_csv, flood_ids, attempts, polled, sleeps>>

\* process_event and export_event_to_gdrive, then the except and finally
\* blocks; Earth Engine may refuse any of its requests
ProcessAndExport ==
    /\ pc = "run"
    /\ LET event_id == flood_ids[event_num]
           event == EventsOf(event_id)[1]
       IN  IF InvalidDate(event) THEN FailEvent(ExcInvalidDate)
           ELSE IF TerraRefuses(event) THEN FailEvent(ExcTerra)
           ELSE \/ FailEvent(ExcEarthEngine)
                \/ /\ exports' = Append(exports, event_id)
                   /\ log_csv' = Append(log_csv, LogSuccess(event_id))
                   /\ snooze_button' = snooze_button + 1
                   /\ event_num' = event_num + 1
                   /\ pc' = "loop"
    /\ UNCHANGED <<registry, adm_df, emdat_df, metrics_df, alloc_df, flags_df,
                   flag_in, flag_out, gpw_df, gdp_df, events_df, panel_df,
                   job, job_env, job_csv, flood_ids, attempts, polled, sleeps>>

\* the for loop is exhausted
FinishLoop ==
    /\ pc = "loop"
    /\ event_num > Len(flood_ids)
    /\ pc' = "loop_done"
    /\ UNCHANGED <<registry, adm_df, emdat_df, metrics_df, alloc_df, flags_df,
                   flag_in, flag_out>>
    /\ UNCHANGED later

---------------------------------------------------------------------------
(* SpecSubmit: the submission loop on batch lists of up to MaxIds ids *)

MaxIds == 3

SubmitRow(key, start, end) == [key |-> key, start |-> start, end |-> end]
\* rows of emdat_floods_by_mon_yr_adm1.csv that have an adm1 geometry
SubmitTable ==
    << SubmitRow(<<1, "A", 1>>, <<2015, 1, 20>>, <<2015, 1, 25>>),
       SubmitRow(<<2, "B", 1>>, <<2000, 2, 10>>, <<2000, 2, 20>>),
       SubmitRow(<<1>>, <<2015, 1, 20>>, NaT) >>
\* the ids of the table and one id without a row
SubmitIds == {SubmitTable[i].key : i \in DOMAIN SubmitTable} \cup {<<3, "C", 9>>}

InitSubmit ==
    /\ pc = "loop"
    /\ registry = <<>> /\ adm_df = <<>>
    /\ metrics_df = <<>> /\ alloc_df = <<>> /\ flags_df = <<>>
    /\ flag_in = EmptyStr /\ flag_out = EmptyStr
    /\ gpw_df = <<>> /\ gdp_df = <<>> /\ events_df = <<>> /\ panel_df = <<>>
    /\ job = <<>> /\ job_env = "none" /\ job_csv = <<>>
    /\ emdat_df = SubmitTable
    /\ \E n \in 1..MaxIds : flood_ids \in [1..n -> SubmitIds]
    /\ event_num = 1 /\ snooze_button = 1
    /\ attempts = <<>> /\ polled = NoPoll /\ sleeps = 0
    /\ exports = <<>> /\ log_csv = <<>>

NextSubmit ==
    \/ StartEvent
    \/ PollQueue
    \/ PollFails
    \/ ProcessAndExport
    \/ FinishLoop

SpecSubmit == InitSubmit /\ [][NextSubmit]_vars

\* the ids of the log rows that record a success
RECURSIVE Succeeded(_)
Succeeded(log) ==
    IF log = <<>> THEN <<>>
    ELSE (IF Head(log).succeeded THEN <<Head(log).event_id>> ELSE <<>>)
            \o Succeeded(Tail(log))

IsPrefix(s, t) == Len(s) <= Len(t) /\ \A k \in DOMAIN s : s[k] = t[k]

\* C22: Submission-loop interface.  The ids are taken in list order; each
\* gets one processing attempt, at most one export job and one log row,
\* which records success or the error type and message; a failed id is not
\* retried and the ids after it are still processed.
C22_SubmissionLoop ==
    pc \in {"loop", "queue", "run", "loop_done"} =>
        /\ IsPrefix(attempts, flood_ids)
        /\ IsPrefix([k \in DOMAIN log_csv |-> log_csv[k].event_id], flood_ids)
        /\ Len(log_csv) = event_num - 1
        /\ Len(attempts) = Len(log_csv) + (IF pc \in {"queue", "run"} THEN 1 ELSE 0)
        /\ exports = Succeeded(log_csv)
        /\ \A k \in DOMAIN log_csv :
              IF log_csv[k].succeeded
              THEN log_csv[k].error_type = "nan" /\ log_csv[k].error_message = "nan"
              ELSE \E e \in {ExcNoEvent, ExcInvalidDate, ExcTerra, ExcEarthEngine} :
                      /\ log_csv[k].error_type = e.class
                      /\ log_csv[k].error_message = e.message
        /\ pc = "loop_done" =>
              /\ Len(attempts) = Len(flood_ids)
              /\ Len(log_csv) = Len(flood_ids)

\* C22 witness: a finished run of three ids in which a failed id is followed
\* by an id whose export was started
C22_Witness ==
    /\ pc = "loop_done"
    /\ Len(flood_ids) = MaxIds
    /\ ~log_csv[1].succeeded
    /\ log_csv[2].succeeded
    /\ exports = <<flood_ids[2]>>

\* C23: Queue throttle.  The loop reaches the export only after a poll that
\* returned fewer than 290 active tasks; a poll that returns 290 or more
\* makes it sleep and poll again without submitting, and a poll below 290
\* lets it proceed.
C23_QueueThrottle ==
    /\ [](pc = "run" => (polled # NoPoll /\ polled < TaskThreshold))
    /\ [][ /\ exports' # exports =>
                (pc = "run" /\ polled # NoPoll /\ polled < TaskThreshold)
           /\ (pc = "queue" /\ pc' # "loop") =>
                IF polled' >= TaskThreshold
                THEN pc' = "queue" /\ sleeps' = sleeps + 1 /\ exports' = exports
                ELSE pc' = "run" /\ polled' # NoPoll /\ sleeps' = sleeps ]_vars

\* C23 witness: an export started after two sleeps and a poll that returned
\* 289
C23_Witness ==
    /\ pc = "loop"
    /\ sleeps = MaxSleeps
    /\ polled = TaskThreshold - 1
    /\ exports # <<>>
    /\ exports[Len(exports)] = flood_ids[event_num - 1]

---------------------------------------------------------------------------
(* Extraction errors and detection refusals in the final flags *)

ErrorCodes == {"3", "4", "5", "6"}
\* the extraction job of the MonthlyEvent left an error row
ExtractionFailed(key) ==
    \E m \in DOMAIN metrics_df :
        metrics_df[m].key = key /\ metrics_df[m].metrics_error # ""

\* C24 (as claimed): Extraction errors reach the flags.  Every MonthlyEvent
\* whose extraction left a non-empty metrics_error carries at least one of
\* the codes 3, 4, 5, 6 in its final flag string.
C24_ErrorsFlagged ==
    Flagged =>
        \A f \in DOMAIN flags_df :
            (~flags_df[f].recovered /\ ExtractionFailed(flags_df[f].key)) =>
                \E c \in ErrorCodes : HasNote(flags_df[f].flags, c)

---------------------------------------------------------------------------
(* Allocation: singleton groups and the columns written by policy 3 *)

\* C25 (as claimed): Singleton group.  A group of exactly one MonthlyEvent
\* is allocated under policy 1 or 2, its population_weight is 1 and its
\* allocated value of each impact variable is the full aggregate, whatever
\* its flooded_area and flooded_population are.
C25_Singleton ==
    pc = "allocated" =>
        \A e \in IdsOf(alloc_df) :
            LET rows == RowsOf(alloc_df, e)
            IN  (Len(RowsOf(emdat_df, e)) = 1 /\ Len(rows) = 1) =>
                  /\ AllocFlagsOf(rows[1]) \in {<<"14">>, <<"13">>}
                  /\ rows[1].population_weight = IntV(1)
                  /\ \A v \in Range(ImpactVars) : rows[1][PwCol(v)] = rows[1][v]

---------------------------------------------------------------------------
(* SpecUndated: AdminUnitEvents with and without dates, from month        *)
(* splitting to the panel                                                 *)

\* The event-level table as prepare_panel_dataset reads it: the stages
\* between month splitting and the panel keep every MonthlyEvent row with
\* its id, adm1_code and mon-yr (the empty string is read back as NaN) and
\* attach the impact columns
ReadEventLevel ==
    /\ pc = "monthly"
    /\ events_df' =
          [i \in DOMAIN emdat_df |->
              PanelEventRow(emdat_df[i].id,
                            <<emdat_df[i].mon_yr, emdat_df[i].adm1_code, EmptyStr>>,
                            IF emdat_df[i].mon_yr = <<>>
                            THEN PanelImpacts[3] ELSE PanelImpacts[2])]
    /\ pc' = "event_level"
    /\ UNCHANGED <<registry, adm_df, emdat_df, metrics_df, alloc_df, flags_df,
                   flag_in, flag_out, gpw_df, gdp_df, panel_df,
                   job, job_env, job_csv, loop>>

NextUndated ==
    \/ PrepareMonthly
    \/ ReadEventLevel
    \/ PreparePanel

SpecUndated == InitSplit /\ [][NextUndated]_vars

Undated(r) == IsNaT(r.start) \/ IsNaT(r.end)
DatedEvents == SelectSeq(events_df, LAMBDA r : r.mon_yr # <<>>)

\* C26: Undated events.  An AdminUnitEvent without a Start Date or End Date
\* yields exactly one row from month splitting, with empty mon-yr and
\* month-id fields and its other columns unchanged, and the panel is the
\* one obtained without the rows that have no mon-yr.
C26_UndatedEvents ==
    /\ pc # "adm" =>
         \A a \in DOMAIN adm_df :
            Undated(adm_df[a]) =>
                LET rows == MonthlyOf(adm_df[a])
                    r == adm_df[a]
                IN  /\ Len(rows) = 1
                    /\ rows[1].mon_yr = <<>>
                    /\ rows[1].key = <<r.adm1_code>>
                    /\ rows[1].start = r.start /\ rows[1].end = r.end
                    /\ rows[1].TotalAffected = r.TotalAffected
                    /\ rows[1].TotalDamage = r.TotalDamage
                    /\ rows[1].data_processing_flags = r.data_processing_flags
    /\ pc = "panel" =>
         /\ panel_df = prepare_panel_dataset(DatedEvents)
         /\ \A k \in DOMAIN panel_df :
               \E i \in DOMAIN events_df :
                  /\ events_df[i].mon_yr # <<>>
                  /\ events_df[i].adm1_code = panel_df[k].adm1_code

\* C26 witness: a panel built from one dated and one undated AdminUnitEvent
\* of different admin units
C26_Witness ==
    /\ pc = "panel"
    /\ Len(adm_df) = 2
    /\ Undated(adm_df[2]) /\ ~Undated(adm_df[1])
    /\ adm_df[1].adm1_code # adm_df[2].adm1_code
    /\ panel_df # <<>>

\* C27: Policy 3 output columns.  After policy 3 every row of the group has
\* population_weight NaN and its raw Total Affected and Total Damage equal
\* to the unsplit aggregates; the population-weighted columns hold the
\* shares (never the aggregate itself), and the group's rows are the rows
\* it had, each once.
C27_Policy3Columns ==
    pc = "allocated" =>
        \A e \in IdsOf(alloc_df) :
            LET rows == RowsOf(alloc_df, e)
                orig == RowsOf(emdat_df, e)
            IN  Mixed(GroupAreas(e)) =>
                  /\ Len(rows) = Len(orig)
                  /\ \A o \in DOMAIN orig :
                        \E i \in DOMAIN rows :
                           /\ rows[i].key = orig[o].key
                           /\ \A j \in DOMAIN rows :
                                 rows[j].key = orig[o].key => j = i
                           /\ IsNaN(rows[i].population_weight)
                           /\ \A v \in Range(ImpactVars) :
                                 /\ rows[i][v] = orig[o][v]
                                 /\ Gt0(orig[o][v]) => rows[i][PwCol(v)] # orig[o][v]

\* C27 witness: a mixed group of three rows with both aggregates present
C27_Witness ==
    /\ pc = "allocated"
    /\ Len(alloc_df) = MaxGroup
    /\ Mixed(GroupAreas("A"))
    /\ \A i \in DOMAIN alloc_df :
          /\ alloc_df[i].TotalAffected = IntV(100)
          /\ alloc_df[i].TotalDamage = IntV(60)
          /\ IsNaN(alloc_df[i].population_weight)
    /\ \E i \in DOMAIN alloc_df : alloc_df[i].TotalAffected_pw = IntV(95)

---------------------------------------------------------------------------
(* Consistency of the final flags *)

\* C28: Zero-flood flag and allocation policy.  In the final flagged table
\* a row carrying flag 12 belongs to a group allocated by policy 2 or 3: it
\* carries flag 13 or 15 and never flag 14.
C28_ZeroFloodPolicy ==
    Flagged =>
        \A f \in DOMAIN flags_df :
            HasNote(flags_df[f].flags, "12") =>
                /\ HasNote(flags_df[f].flags, "13")
                      \/ HasNote(flags_df[f].flags, "15")
                /\ ~HasNote(flags_df[f].flags, "14")
                /\ \E a \in DOMAIN alloc_df :
                      /\ alloc_df[a].key = flags_df[f].key
                      /\ AllocFlagsOf(alloc_df[a]) \in {<<"13">>, <<"15">>}

\* C28 witness: a row with flags 12 and 15 (mixed group) next to a flooded
\* row of the same disaster
C28_Witness ==
    /\ Flagged
    /\ \E f, g \in DOMAIN flags_df :
          /\ flags_df[f].id = flags_df[g].id
          /\ HasNote(flags_df[f].flags, "12")
          /\ HasNote(flags_df[f].flags, "15")
          /\ ~HasNote(flags_df[g].flags, "12")
          /\ HasNote(flags_df[g].flags, "15")

\* C29 (as claimed): No disaster id is represented twice across branches.
\* In the final flagged table no disaster id has both rows of the
\* disaggregated table and a row recovered by get_missing_rows.
C29_BranchesDisjoint ==
    Flagged =>
        \A f, g \in DOMAIN flags_df :
            (flags_df[f].recovered /\ ~flags_df[g].recovered) =>
                flags_df[f].id # flags_df[g].id

---------------------------------------------------------------------------
(* SpecTerra: the pipeline on records that start around the first Terra   *)
(* observations                                                           *)

TerraDateChoices ==
    { <<2000, 2, 24, 2000, 2, 28>>, <<2000, 2, 25, 2000, 2, 28>>,
      <<2000, 2, 26, 2000, 3, 2>>, <<2000, 2, NA, 2000, 2, 28>>,
      <<2015, 1, 20, 2015, NA, NA>> }

InitTerra ==
    /\ pc = "registry"
    /\ NoLater
    /\ adm_df = <<>> /\ emdat_df = <<>> /\ metrics_df = <<>>
    /\ alloc_df = <<>> /\ flags_df = <<>>
    /\ flag_in = EmptyStr /\ flag_out = EmptyStr
    /\ \E n \in 1..MaxRecords :
         \E ds \in [1..n -> TerraDateChoices] :
            /\ registry = [i \in 1..n |->
                  RegistryRow(RecordIds[i], ds[i], UnitsList(<<Adm1Unit(1)>>),
                              EmptyStr)]
            /\ Len(MonthlyRowsOf(registry)) <= MaxMonthly

SpecTerra == InitTerra /\ [][Next]_vars

\* C30 (as claimed): Pre-satellite flag agrees with the detection stage.  A
\* MonthlyEvent carries flag 3 if and only if process_event refuses it at
\* its Terra date check; a refused event has flag 3 and not flag 4, and no
\* row carries both.
C30_TerraFlag ==
    Flagged =>
        \A f \in DOMAIN flags_df :
            ~flags_df[f].recovered =>
                /\ HasNote(flags_df[f].flags, "3") <=> TerraRefuses(flags_df[f])
                /\ TerraRefuses(flags_df[f]) => ~HasNote(flags_df[f].flags, "4")
                /\ ~(HasNote(flags_df[f].flags, "3")
                        /\ HasNote(flags_df[f].flags, "4"))

=============================================================================
